---- MODULE Spec2Model ----
(***************************************************************************)
(* Comparable-vehicle retrieval and ranking engine of CarmaSearch          *)
(* (recommender_engine/autoscout-ml/src/api.py).                           *)
(*                                                                         *)
(* Representation.                                                         *)
(*  - A text value is a sequence of one-character strings; None (SQL NULL, *)
(*    Python None) is the one-element sequence <<"None">>, which is not a  *)
(*    character.                                                           *)
(*  - A number that may be missing is an integer >= 0 or NoneNum.          *)
(*  - Scores are fixed-point integers, ONE standing for 1.0.               *)
(***************************************************************************)
EXTENDS Integers, Sequences, FiniteSets, TLC

VARIABLES
  \* ---- listing store and one request of GET /listings/<id>/comparables
  store,            \* vehicle_id -> row of vehicle_marketplace.vehicle_data
  today,            \* datetime.utcnow(): year, month, day and the day number
  storeChanges,     \* number of store writes by ingestion so far
  pc,               \* position of the request handler
  target_row,       \* row returned by fetch_vehicle
  target_payload,   \* format_vehicle_payload of the target row
  target_year,      \* target_payload["year"]
  target_locks,     \* the target attributes find_candidate_rows extracts
  top,              \* clamped "top" parameter
  options,          \* candidate_options: candidate_limit, min_results
  tolerances,       \* tolerance_config passed to score_candidates
  attempt,          \* index of the next relaxation attempt (1..5)
  attempt_logs,     \* attempt_logs of find_candidate_rows
  best_result,      \* best_result of find_candidate_rows
  query_available,  \* history: the ids available when each attempt's query ran
  candidates_raw,   \* rows returned by find_candidate_rows
  candidate_debug,  \* debug dict returned by find_candidate_rows
  scored,           \* list returned by score_candidates
  response,         \* (status, body) answered by the endpoint
  \* ---- the connection pool and the get_db_cursor blocks of the worker threads
  pool,             \* ThreadedConnectionPool: idle and checked-out connections
  cursors,          \* worker -> position in its get_db_cursor block, its connection
  \* ---- the candidate cache of fetch_candidate_rows
  CANDIDATE_CACHE,  \* key -> entry (ts, rows), NoRecord for an absent key
  clock,            \* time.time() in seconds
  fetch_result,     \* the last call of fetch_candidate_rows: target and outcome
  \* ---- concurrent calls of fetch_candidate_rows by the worker threads
  threads,          \* thread -> position in fetch_candidate_rows and its locals
  pool_lock,        \* _pool_lock: the thread holding it, 0 when it is free
  pool_created,     \* _connection_pool is not None
  cache_accesses,   \* history: the reads and writes of CANDIDATE_CACHE so far
  \* ---- the row objects behind the cache and behind a caller's result
  heap,             \* address -> object: a row dict or the list of its images
  \* ---- one call of HybridRankingEngine.rank_candidates (ranking_pipeline.py)
  rank_target,      \* the target dict
  rank_cohort,      \* the candidates in the order given
  ranked,           \* whether the call has returned, and the list it returned
  \* ---- one value taken through normalize_color, once and again
  color_call,       \* the raw value and the results of the successive calls
  \* ---- one call of find_candidate_rows of the ranking service (RankingMODEL api.py)
  ladder_call,      \* target row, listings, attempts, position, queries run, result
  \* ---- one call of VehicleDatabase._get_connection (database/db.py)
  connection_call   \* the pool's connections, the loop's locals and its outcome

poolVars == << pool, cursors >>
threadVars == << threads, pool_lock, pool_created, cache_accesses >>
rankVars == << rank_target, rank_cohort, ranked >>
engineVars == << rankVars, color_call, ladder_call, connection_call >>
cacheVars == << CANDIDATE_CACHE, clock, fetch_result, threadVars, heap, engineVars >>

None == <<"None">>
NoneNum == 0 - 1

\* None where a row, a payload or a dict is expected
NoRecord == [none |-> TRUE]

\* no call of the ranking engine, of normalize_color, of the ranking service's
\* ladder or of _get_connection is under way
RankIdle ==
  /\ rank_target = NoRecord /\ rank_cohort = << >>
  /\ ranked = [returned |-> FALSE, entries |-> << >>]

ColorIdle == color_call = NoRecord

LadderIdle == ladder_call = NoRecord

ConnectionIdle == connection_call = NoRecord

-----------------------------------------------------------------------------
(* Text helpers: Python str and SQL text functions on character sequences. *)

Min(S) == CHOOSE x \in S : \A y \in S : x <= y
Max(S) == CHOOSE x \in S : \A y \in S : x >= y

\* str.strip() removes any leading and trailing whitespace
WhitespaceChars == {" ", "\t"}

\* SQL TRIM(x) removes leading and trailing spaces only
TrimChars == {" "}

StripChars(s, chars) ==
  LET keep == {i \in 1..Len(s) : s[i] \notin chars}
  IN  IF keep = {} THEN <<>> ELSE SubSeq(s, Min(keep), Max(keep))

PyStrip(s) == StripChars(s, WhitespaceChars)

SqlTrim(s) == StripChars(s, TrimChars)

\* str.lower() / SQL LOWER() on the characters of the model's alphabet
LowerChar(c) ==
  CASE c = "A" -> "a" [] c = "B" -> "b" [] c = "C" -> "c" [] c = "D" -> "d"
    [] c = "E" -> "e" [] c = "F" -> "f" [] c = "G" -> "g" [] c = "H" -> "h"
    [] c = "I" -> "i" [] c = "J" -> "j" [] c = "K" -> "k" [] c = "L" -> "l"
    [] c = "M" -> "m" [] c = "N" -> "n" [] c = "O" -> "o" [] c = "P" -> "p"
    [] c = "Q" -> "q" [] c = "R" -> "r" [] c = "S" -> "s" [] c = "T" -> "t"
    [] c = "U" -> "u" [] c = "V" -> "v" [] c = "W" -> "w" [] c = "X" -> "x"
    [] c = "Y" -> "y" [] c = "Z" -> "z" [] c = "Ä" -> "ä" [] c = "Ö" -> "ö"
    [] c = "Ü" -> "ü" [] c = "É" -> "é"
    [] OTHER -> c

Lower(s) == [i \in 1..Len(s) |-> LowerChar(s[i])]

\* strip_accents: NFKD decomposition with the combining marks dropped
StripAccentChar(c) ==
  CASE c = "ä" -> "a" [] c = "ö" -> "o" [] c = "ü" -> "u" [] c = "é" -> "e"
    [] c = "Ä" -> "A" [] c = "Ö" -> "O" [] c = "Ü" -> "U" [] c = "É" -> "E"
    [] OTHER -> c

strip_accents(s) == [i \in 1..Len(s) |-> StripAccentChar(s[i])]

\* str.replace(old, new) for single characters
ReplaceChar(s, old, new) == [i \in 1..Len(s) |-> IF s[i] = old THEN new ELSE s[i]]

\* re.sub(r"\s+", " ", s)
RECURSIVE CollapseWhitespace(_)
CollapseWhitespace(s) ==
  IF s = <<>> THEN <<>>
  ELSE IF Head(s) \in WhitespaceChars
       THEN LET rest == CollapseWhitespace(Tail(s))
            IN  IF rest # <<>> /\ Head(rest) = " " THEN rest ELSE <<" ">> \o rest
       ELSE <<Head(s)>> \o CollapseWhitespace(Tail(s))

HasPrefix(s, p) == Len(p) <= Len(s) /\ SubSeq(s, 1, Len(p)) = p

\* keyword in s
Contains(s, sub) ==
  \E i \in 1..(Len(s) - Len(sub) + 1) : SubSeq(s, i, i + Len(sub) - 1) = sub

\* re.split(r"[\/,;]| und | with ", s): the parts, left to right
SplitSeparators == << <<"/">>, <<",">>, <<";">>, <<" ","u","n","d"," ">>, <<" ","w","i","t","h"," ">> >>

RECURSIVE SplitParts(_, _)
SplitParts(s, cur) ==
  IF s = <<>> THEN << cur >>
  ELSE LET hits == {j \in 1..Len(SplitSeparators) : HasPrefix(s, SplitSeparators[j])}
       IN  IF hits # {}
           THEN LET sep == SplitSeparators[Min(hits)]
                IN  << cur >> \o SplitParts(SubSeq(s, Len(sep) + 1, Len(s)), <<>>)
           ELSE SplitParts(Tail(s), Append(cur, Head(s)))

\* dict lookups on a (key, value) pair list
MapHas(m, k) == \E i \in 1..Len(m) : m[i][1] = k
MapGet(m, k) == m[CHOOSE i \in 1..Len(m) : m[i][1] = k][2]

-----------------------------------------------------------------------------
(* Canonical vocabularies and normalisation (api.py 60-301).               *)

\* COLOR_CANONICAL_MAP: (key, value) pairs in source order (api.py 60-112)
COLOR_CANONICAL_MAP ==
  << << <<"w","e","i","s","s">>, <<"w","h","i","t","e">> >>,
     << <<"w","e","i","ß">>, <<"w","h","i","t","e">> >>,
     << <<"w","e","i","ß"," ","m","e","t","a","l","l","i","c">>, <<"w","h","i","t","e">> >>,
     << <<"w","e","i","s","s"," ","m","e","t","a","l","l","i","c">>, <<"w","h","i","t","e">> >>,
     << <<"w","h","i","t","e">>, <<"w","h","i","t","e">> >>,
     << <<"c","a","n","d","y"," ","w","h","i","t","e">>, <<"w","h","i","t","e">> >>,
     << <<"p","o","l","a","r"," ","w","h","i","t","e">>, <<"w","h","i","t","e">> >>,
     << <<"p","u","r","e"," ","w","h","i","t","e">>, <<"w","h","i","t","e">> >>,
     << <<"a","l","p","i","n","w","e","i","s","s">>, <<"w","h","i","t","e">> >>,
     << <<"a","l","p","i","n","e"," ","w","h","i","t","e">>, <<"w","h","i","t","e">> >>,
     << <<"b","l","a","n","c">>, <<"w","h","i","t","e">> >>,
     << <<"b","i","a","n","c","o">>, <<"w","h","i","t","e">> >>,
     << <<"s","c","h","w","a","r","z">>, <<"b","l","a","c","k">> >>,
     << <<"s","c","h","w","a","r","z"," ","m","e","t","a","l","l","i","c">>, <<"b","l","a","c","k">> >>,
     << <<"b","l","a","c","k">>, <<"b","l","a","c","k">> >>,
     << <<"d","e","e","p"," ","b","l","a","c","k">>, <<"b","l","a","c","k">> >>,
     << <<"n","o","i","r">>, <<"b","l","a","c","k">> >>,
     << <<"n","e","r","o">>, <<"b","l","a","c","k">> >>,
     << <<"g","r","a","u">>, <<"g","r","a","y">> >>,
     << <<"g","r","a","u"," ","m","e","t","a","l","l","i","c">>, <<"g","r","a","y">> >>,
     << <<"g","r","a","p","h","i","t">>, <<"g","r","a","y">> >>,
     << <<"g","r","a","p","h","i","t","e">>, <<"g","r","a","y">> >>,
     << <<"g","r","e","y">>, <<"g","r","a","y">> >>,
     << <<"g","r","i","s">>, <<"g","r","a","y">> >>,
     << <<"a","n","t","h","r","a","z","i","t">>, <<"g","r","a","y">> >>,
     << <<"a","n","t","h","r","a","c","i","t","e">>, <<"g","r","a","y">> >>,
     << <<"b","l","a","u">>, <<"b","l","u","e">> >>,
     << <<"a","z","u","l">>, <<"b","l","u","e">> >>,
     << <<"b","l","e","u">>, <<"b","l","u","e">> >>,
     << <<"b","l","u">>, <<"b","l","u","e">> >>,
     << <<"r","o","t">>, <<"r","e","d">> >>,
     << <<"r","o","s","s","o">>, <<"r","e","d">> >>,
     << <<"r","o","u","g","e">>, <<"r","e","d">> >>,
     << <<"s","i","l","b","e","r">>, <<"s","i","l","v","e","r">> >>,
     << <<"s","i","l","b","e","r"," ","m","e","t","a","l","l","i","c">>, <<"s","i","l","v","e","r">> >>,
     << <<"s","i","l","v","e","r">>, <<"s","i","l","v","e","r">> >>,
     << <<"a","r","g","e","n","t">>, <<"s","i","l","v","e","r">> >>,
     << <<"g","r","u","n">>, <<"g","r","e","e","n">> >>,
     << <<"g","r","ü","n">>, <<"g","r","e","e","n">> >>,
     << <<"v","e","r","d","e">>, <<"g","r","e","e","n">> >>,
     << <<"v","e","r","t">>, <<"g","r","e","e","n">> >>,
     << <<"b","r","a","u","n">>, <<"b","r","o","w","n">> >>,
     << <<"m","a","r","r","o","n">>, <<"b","r","o","w","n">> >>,
     << <<"b","r","u","i","n">>, <<"b","r","o","w","n">> >>,
     << <<"b","e","i","g","e">>, <<"b","e","i","g","e">> >>,
     << <<"s","a","n","d">>, <<"b","e","i","g","e">> >>,
     << <<"c","r","e","m","e">>, <<"b","e","i","g","e">> >>,
     << <<"o","r","a","n","g","e">>, <<"o","r","a","n","g","e">> >>,
     << <<"g","e","l","b">>, <<"y","e","l","l","o","w">> >>,
     << <<"a","m","a","r","i","l","l","o">>, <<"y","e","l","l","o","w">> >>,
     << <<"g","i","a","l","l","o">>, <<"y","e","l","l","o","w">> >> >>

\* FUEL_MAP: (key, value) pairs in source order (api.py 114-123)
FUEL_MAP ==
  << << <<"b","e","n","z","i","n">>, <<"p","e","t","r","o","l">> >>,
     << <<"e","l","e","k","t","r","o">>, <<"e","l","e","c","t","r","i","c">> >>,
     << <<"d","i","e","s","e","l">>, <<"d","i","e","s","e","l">> >>,
     << <<"e","l","e","k","t","r","o","/","b","e","n","z","i","n">>, <<"h","y","b","r","i","d">> >>,
     << <<"p","l","u","g","i","n","-","h","y","b","r","i","d">>, <<"p","l","u","g","-","i","n"," ","h","y","b","r","i","d">> >>,
     << <<"h","y","b","r","i","d">>, <<"h","y","b","r","i","d">> >>,
     << <<"l","p","g">>, <<"l","p","g">> >>,
     << <<"c","n","g">>, <<"c","n","g">> >> >>

\* TRANSMISSION_MAP: (key, value) pairs in source order (api.py 125-130)
TRANSMISSION_MAP ==
  << << <<"a","u","t","o","m","a","t","i","k">>, <<"a","u","t","o","m","a","t","i","c">> >>,
     << <<"s","c","h","a","l","t","g","e","t","r","i","e","b","e">>, <<"m","a","n","u","a","l">> >>,
     << <<"m","a","n","u","e","l","l">>, <<"m","a","n","u","a","l">> >>,
     << <<"t","i","p","t","r","o","n","i","c">>, <<"a","u","t","o","m","a","t","i","c">> >> >>

\* BODY_TYPE_MAP: (key, value) pairs in source order (api.py 132-148)
BODY_TYPE_MAP ==
  << << <<"s","u","v","/","g","e","l","ä","n","d","e","w","a","g","e","n","/","p","i","c","k","u","p">>, <<"s","u","v">> >>,
     << <<"g","e","l","ä","n","d","e","w","a","g","e","n">>, <<"s","u","v">> >>,
     << <<"s","u","v">>, <<"s","u","v">> >>,
     << <<"l","i","m","o","u","s","i","n","e">>, <<"s","e","d","a","n">> >>,
     << <<"k","o","m","b","i">>, <<"w","a","g","o","n">> >>,
     << <<"c","o","u","p","e">>, <<"c","o","u","p","e">> >>,
     << <<"c","o","u","p","é">>, <<"c","o","u","p","e">> >>,
     << <<"c","a","b","r","i","o">>, <<"c","o","n","v","e","r","t","i","b","l","e">> >>,
     << <<"k","a","b","r","i","o","l","e","t","t">>, <<"c","o","n","v","e","r","t","i","b","l","e">> >>,
     << <<"k","a","s","t","e","n","w","a","g","e","n"," ","h","o","c","h","d","a","c","h">>, <<"v","a","n">> >>,
     << <<"k","a","s","t","e","n","w","a","g","e","n">>, <<"v","a","n">> >>,
     << <<"t","r","a","n","s","p","o","r","t","e","r">>, <<"v","a","n">> >>,
     << <<"v","a","n">>, <<"v","a","n">> >>,
     << <<"k","l","e","i","n","w","a","g","e","n">>, <<"h","a","t","c","h","b","a","c","k">> >>,
     << <<"s","c","h","r","ä","g","h","e","c","k","l","i","m","o","u","s","i","n","e">>, <<"h","a","t","c","h","b","a","c","k">> >> >>

\* COLOR_KEYWORD_MAP: (canonical, keyword list) in source order (api.py 181-206)
COLOR_KEYWORD_MAP ==
  << << <<"w","h","i","t","e">>,
        << <<"w","e","i","s","s">>, <<"w","e","i","ß">>, <<"w","h","i","t","e">>, <<"b","i","a","n","c","o">>, <<"b","l","a","n","c">>, <<"b","l","a","n","c","o">>, <<"a","l","p","i","n">>, <<"a","r","c","t","i","c">>, <<"p","o","l","a","r">>, <<"c","a","n","d","y">>, <<"p","u","r","e"," ","w","h","i","t","e">>, <<"s","n","o","w">> >> >>,
     << <<"b","l","a","c","k">>,
        << <<"s","c","h","w","a","r","z">>, <<"b","l","a","c","k">>, <<"n","o","i","r">>, <<"n","e","r","o">>, <<"o","b","s","i","d","i","a","n">>, <<"m","i","d","n","i","g","h","t">>, <<"d","e","e","p"," ","b","l","a","c","k">>, <<"o","n","y","x">> >> >>,
     << <<"g","r","a","y">>,
        << <<"g","r","a","u">>, <<"g","r","a","u"," ","m","e","t","a","l","l","i","c">>, <<"g","r","a","y">>, <<"g","r","i","s">>, <<"a","n","t","h","r","a","c","i","t","e">>, <<"g","r","a","p","h","i","t">>, <<"g","r","a","p","h","i","t","e">>, <<"s","l","a","t","e">> >> >>,
     << <<"b","l","u","e">>,
        << <<"b","l","a","u">>, <<"b","l","e","u">>, <<"b","l","u">>, <<"a","z","u","l">>, <<"b","l","u","e">>, <<"n","a","v","y">>, <<"o","c","e","a","n">> >> >>,
     << <<"r","e","d">>,
        << <<"r","o","t">>, <<"r","o","s","s","o">>, <<"r","o","u","g","e">>, <<"r","e","d">>, <<"c","r","i","m","s","o","n">> >> >>,
     << <<"s","i","l","v","e","r">>,
        << <<"s","i","l","b","e","r">>, <<"s","i","l","v","e","r">>, <<"a","r","g","e","n","t">>, <<"p","l","a","t","i","n","u","m">>, <<"p","l","a","t","i","n","o">> >> >>,
     << <<"g","r","e","e","n">>,
        << <<"g","r","u","n">>, <<"g","r","u","e","n">>, <<"g","r","ü","n">>, <<"v","e","r","d","e">>, <<"v","e","r","t">>, <<"g","r","e","e","n">> >> >>,
     << <<"b","r","o","w","n">>,
        << <<"b","r","a","u","n">>, <<"m","a","r","r","o","n">>, <<"b","r","o","w","n">>, <<"b","r","u","i","n">>, <<"b","r","o","n","z","e">> >> >>,
     << <<"b","e","i","g","e">>,
        << <<"b","e","i","g","e">>, <<"s","a","n","d">>, <<"c","r","e","m","e">>, <<"c","h","a","m","p","a","g","n","e">>, <<"i","v","o","r","y">> >> >>,
     << <<"o","r","a","n","g","e">>,
        << <<"o","r","a","n","g","e">>, <<"s","u","n","s","e","t">> >> >>,
     << <<"y","e","l","l","o","w">>,
        << <<"g","e","l","b">>, <<"g","i","a","l","l","o">>, <<"a","m","a","r","i","l","l","o">>, <<"y","e","l","l","o","w">> >> >> >>

normalize_text(value) ==
  IF value = None THEN None
  ELSE LET text == PyStrip(value) IN IF text = <<>> THEN None ELSE text

\* first canonical colour one of whose keywords occurs in lowered, else None
KeywordColor(lowered) ==
  LET hits == {i \in 1..Len(COLOR_KEYWORD_MAP) :
                 \E j \in 1..Len(COLOR_KEYWORD_MAP[i][2]) :
                    Contains(lowered, COLOR_KEYWORD_MAP[i][2][j])}
  IN  IF hits = {} THEN None ELSE COLOR_KEYWORD_MAP[Min(hits)][1]

\* first non-empty part of the composite value that is a key of the map
CompositeColor(lowered) ==
  LET parts == SplitParts(lowered, <<>>)
      hits  == {i \in 1..Len(parts) :
                  /\ PyStrip(parts[i]) # <<>>
                  /\ MapHas(COLOR_CANONICAL_MAP, PyStrip(parts[i]))}
  IN  IF hits = {} THEN None
      ELSE MapGet(COLOR_CANONICAL_MAP, PyStrip(parts[Min(hits)]))

normalize_color(value) ==
  LET text == normalize_text(value) IN
  IF text = None THEN None
  ELSE LET lowered == PyStrip(CollapseWhitespace(
                        ReplaceChar(Lower(strip_accents(text)), "-", " ")))
       IN  IF MapHas(COLOR_CANONICAL_MAP, lowered)
             THEN MapGet(COLOR_CANONICAL_MAP, lowered)
           ELSE IF CompositeColor(lowered) # None THEN CompositeColor(lowered)
           ELSE IF KeywordColor(lowered) # None THEN KeywordColor(lowered)
           ELSE lowered

normalize_category(value, mapping) ==
  LET text == normalize_text(value) IN
  IF text = None THEN None
  ELSE LET key == Lower(strip_accents(text))
       IN  IF MapHas(mapping, key) THEN MapGet(mapping, key) ELSE key

-----------------------------------------------------------------------------
(* Numeric normalisation (api.py 427-462).                                 *)
(* A price or mileage column holds free text; the model keeps its value    *)
(* after the digits-only cast of NUMERIC_PRICE_SQL / NUMERIC_MILEAGE_SQL,  *)
(* NoneNum when no digit is left.                                          *)

\* float(value) of a number, None of None
normalise_price(value) == IF value = NoneNum THEN NoneNum ELSE value

normalise_mileage(value) == IF value = NoneNum THEN NoneNum ELSE value

\* first_registration_raw is kept parsed: kind "iso" is YYYY-MM-DD, kind "my" is
\* MM/YYYY (a 4-digit token, but no ISO date), kind "text" holds no 4-digit
\* token, kind "none" is NULL.
extract_year(raw) == IF raw.kind \in {"iso", "my"} THEN raw.y ELSE NoneNum

\* truthiness of an optional text and of an optional number
Truthy(s) == s # None /\ s # <<>>
TruthyNum(x) == x # NoneNum /\ x # 0

-----------------------------------------------------------------------------
(* Candidate retrieval: find_candidate_rows (api.py 1048-1279).            *)

\* a ladder whose third step narrows the year window again
relaxation_attempts_narrowing ==
  << [name |-> "strict",          year_tolerance |-> 2, mileage_ratio |-> 50,
      price_min |-> 60, price_max |-> 140, power_ratio |-> 15],
     [name |-> "relaxed_year",    year_tolerance |-> 3, mileage_ratio |-> 50,
      price_min |-> 60, price_max |-> 140, power_ratio |-> 15],
     [name |-> "relaxed_mileage", year_tolerance |-> 2, mileage_ratio |-> 75,
      price_min |-> 60, price_max |-> 140, power_ratio |-> 15],
     [name |-> "relaxed_price",   year_tolerance |-> 3, mileage_ratio |-> 75,
      price_min |-> 50, price_max |-> 150, power_ratio |-> 15],
     [name |-> "relaxed_power",   year_tolerance |-> 3, mileage_ratio |-> 75,
      price_min |-> 50, price_max |-> 150, power_ratio |-> 25] >>

\* relaxation_attempts; the ratios are in percent
relaxation_attempts ==
  << [name |-> "strict",          year_tolerance |-> 2, mileage_ratio |-> 50,
      price_min |-> 60, price_max |-> 140, power_ratio |-> 15],
     [name |-> "relaxed_year",    year_tolerance |-> 3, mileage_ratio |-> 50,
      price_min |-> 60, price_max |-> 140, power_ratio |-> 15],
     [name |-> "relaxed_mileage", year_tolerance |-> 3, mileage_ratio |-> 75,
      price_min |-> 60, price_max |-> 140, power_ratio |-> 15],
     [name |-> "relaxed_price",   year_tolerance |-> 3, mileage_ratio |-> 75,
      price_min |-> 50, price_max |-> 150, power_ratio |-> 15],
     [name |-> "relaxed_power",   year_tolerance |-> 3, mileage_ratio |-> 75,
      price_min |-> 50, price_max |-> 150, power_ratio |-> 25] >>

\* x BETWEEN t*lo% AND t*hi% ; a NULL x never satisfies it
BetweenPct(x, t, lo, hi) == x # NoneNum /\ t * lo <= 100 * x /\ 100 * x <= t * hi

\* SQL text equality; NULL = anything is not true
SqlEq(col, param) == col # None /\ col = param

\* the target attributes find_candidate_rows extracts before the loop (api.py 1069-1088);
\* price_num or price, mileage_num or mileage_km: the row keeps one value for both
TargetLocks(t) ==
  [ vehicle_id       |-> t.vehicle_id,
    make             |-> normalize_text(t.make),
    model            |-> normalize_text(t.model),
    body_raw         |-> t.body_type,
    fuel_raw         |-> t.fuel_type,
    transmission_raw |-> t.transmission,
    body             |-> normalize_category(t.body_type, BODY_TYPE_MAP),
    fuel             |-> normalize_category(t.fuel_type, FUEL_MAP),
    transmission     |-> normalize_category(t.transmission, TRANSMISSION_MAP),
    color            |-> normalize_color(t.color),
    price            |-> normalise_price(t.price_num),
    mileage          |-> normalise_mileage(t.mileage_num),
    power            |-> normalise_mileage(t.power_kw) ]

\* LOWER(TRIM(column)) = strip_accents(raw).lower()
SqlCategoryEq(col, raw) == col # None /\ Lower(SqlTrim(col)) = Lower(strip_accents(raw))

\* the WHERE clause without its first two conditions
WhereClause_unguarded(row, tl, a) ==
  /\ SqlEq(row.make, tl.make)
  /\ SqlEq(row.model, tl.model)
  /\ Truthy(tl.body_raw) => SqlCategoryEq(row.body_type, tl.body_raw)
  /\ Truthy(tl.fuel_raw) => SqlCategoryEq(row.fuel_type, tl.fuel_raw)
  /\ Truthy(tl.transmission_raw) => SqlCategoryEq(row.transmission, tl.transmission_raw)
  /\ Truthy(tl.color) => (row.color # None /\ row.color # <<>>)
  /\ TruthyNum(tl.mileage) =>
       BetweenPct(row.mileage_num, tl.mileage, 100 - a.mileage_ratio, 100 + a.mileage_ratio)
  /\ TruthyNum(tl.price) =>
       BetweenPct(row.price_num, tl.price, a.price_min, a.price_max)
  /\ TruthyNum(tl.power) =>
       BetweenPct(row.power_kw, tl.power, 100 - a.power_ratio, 100 + a.power_ratio)

\* the WHERE clause of one attempt (api.py 1142-1194)
WhereClause(row, tl, a) ==
  /\ row.is_vehicle_available
  /\ row.vehicle_id # tl.vehicle_id
  /\ SqlEq(row.make, tl.make)
  /\ SqlEq(row.model, tl.model)
  /\ Truthy(tl.body_raw) => SqlCategoryEq(row.body_type, tl.body_raw)
  /\ Truthy(tl.fuel_raw) => SqlCategoryEq(row.fuel_type, tl.fuel_raw)
  /\ Truthy(tl.transmission_raw) => SqlCategoryEq(row.transmission, tl.transmission_raw)
  /\ Truthy(tl.color) => (row.color # None /\ row.color # <<>>)
  /\ TruthyNum(tl.mileage) =>
       BetweenPct(row.mileage_num, tl.mileage, 100 - a.mileage_ratio, 100 + a.mileage_ratio)
  /\ TruthyNum(tl.price) =>
       BetweenPct(row.price_num, tl.price, a.price_min, a.price_max)
  /\ TruthyNum(tl.power) =>
       BetweenPct(row.power_kw, tl.power, 100 - a.power_ratio, 100 + a.power_ratio)

\* ORDER BY created_at DESC: the ids of S, newest first (created_at is unique)
RECURSIVE NewestFirst(_, _)
NewestFirst(db, S) ==
  IF S = {} THEN <<>>
  ELSE LET newest == CHOOSE i \in S : \A j \in S : db[j].created_at <= db[i].created_at
       IN  <<newest>> \o NewestFirst(db, S \ {newest})

FirstN(seq, n) == SubSeq(seq, 1, IF Len(seq) < n THEN Len(seq) ELSE n)

\* the rows one attempt's query fetches (api.py 1197-1210)
QueryRows(db, tl, a, limit) ==
  LET ids == NewestFirst(db, {i \in DOMAIN db : WhereClause(db[i], tl, a)})
  IN  [k \in 1..Len(FirstN(ids, limit)) |-> db[ids[k]]]

\* the Python-side filter with the year check only
KeepRow_year_only(row, tl, tyear, a) ==
  TruthyNum(tyear) =>
    /\ extract_year(row.first_registration_raw) # NoneNum
    /\ extract_year(row.first_registration_raw) - tyear <= a.year_tolerance
    /\ tyear - extract_year(row.first_registration_raw) <= a.year_tolerance

\* the Python-side colour and year filter of one row (api.py 1218-1228)
KeepRow(row, tl, tyear, a) ==
  /\ Truthy(tl.color) => normalize_color(row.color) = tl.color
  /\ TruthyNum(tyear) =>
       /\ extract_year(row.first_registration_raw) # NoneNum
       /\ extract_year(row.first_registration_raw) - tyear <= a.year_tolerance
       /\ tyear - extract_year(row.first_registration_raw) <= a.year_tolerance

\* the rows of an attempt that pass the filter, in query order
FilterRows(rows, tl, tyear, a) == SelectSeq(rows, LAMBDA row : KeepRow(row, tl, tyear, a))

-----------------------------------------------------------------------------
(* Fixed-point arithmetic.                                                 *)

\* 1.0 as a fixed-point integer
ONE == 100 * 100

Abs(x) == IF x < 0 THEN 0 - x ELSE x
MinOf(a, b) == IF a < b THEN a ELSE b
MaxOf(a, b) == IF a > b THEN a ELSE b
Clamp01(x) == MaxOf(0, MinOf(ONE, x))

\* num / den as a fixed-point number, den > 0, rounded toward zero
Ratio(num, den) ==
  LET n == Abs(num)
      q == (n \div den) * ONE + ((n % den) * ONE) \div den
  IN  IF num < 0 THEN 0 - q ELSE q

\* fixed-point product
Mul(a, b) == IF a * b < 0 THEN 0 - ((0 - a * b) \div ONE) ELSE (a * b) \div ONE

\* ONE * exp(-i/10) for i = 0..100, rounded
ExpNegTable ==
  << 10000, 9048, 8187, 7408, 6703, 6065, 5488, 4966, 4493, 4066, 3679, 3329,
     3012, 2725, 2466, 2231, 2019, 1827, 1653, 1496, 1353, 1225, 1108, 1003,
     907, 821, 743, 672, 608, 550, 498, 450, 408, 369, 334, 302,
     273, 247, 224, 202, 183, 166, 150, 136, 123, 111, 101, 91,
     82, 74, 67, 61, 55, 50, 45, 41, 37, 33, 30, 27,
     25, 22, 20, 18, 17, 15, 14, 12, 11, 10, 9, 8,
     7, 7, 6, 6, 5, 5, 4, 4, 3, 3, 3, 2,
     2, 2, 2, 2, 2, 1, 1, 1, 1, 1, 1, 1,
     1, 1, 1, 1, 0 >>

\* math.exp(-x) for a fixed-point x >= 0, taken at the grid point below x
ExpNeg(x) == IF x \div 1000 + 1 > Len(ExpNegTable) THEN 0 ELSE ExpNegTable[x \div 1000 + 1]

\* math.exp(x) raises OverflowError above ln(DBL_MAX) = 709.78
ExpOverflows(x) == x > 7097827

\* 1.0 / (1.0 + math.exp(-z)) for a fixed-point z the exp accepts
Sigmoid(z) ==
  IF z >= 0 THEN (ONE * ONE) \div (ONE + ExpNeg(z))
  ELSE (ONE * ExpNeg(0 - z)) \div (ONE + ExpNeg(0 - z))

-----------------------------------------------------------------------------
(* format_vehicle_payload (api.py 480-552).                                *)

\* age in months of an ISO registration date at the date now
AgeMonths(reg, now) ==
  IF reg.kind # "iso" THEN NoneNum
  ELSE LET later == \/ reg.y > now.y
                    \/ (reg.y = now.y /\ reg.m > now.m)
                    \/ (reg.y = now.y /\ reg.m = now.m /\ reg.d > now.d)
           r   == IF later THEN now ELSE reg
           age == (now.y - r.y) * 12 + (now.m - r.m)
       IN  IF now.d < r.d THEN MaxOf(0, age - 1) ELSE age

\* days since created_at, never negative
FreshnessDays(created_at, now) ==
  IF created_at = NoneNum THEN NoneNum ELSE MaxOf(0, now.day - created_at)

format_vehicle_payload(row, now) ==
  [ id                 |-> row.vehicle_id,
    price_eur          |-> normalise_price(row.price_num),
    mileage_km         |-> normalise_mileage(row.mileage_num),
    year               |-> extract_year(row.first_registration_raw),
    age_months         |-> AgeMonths(row.first_registration_raw, now),
    make               |-> row.make,
    model              |-> row.model,
    fuel_group         |-> normalize_category(row.fuel_type, FUEL_MAP),
    transmission_group |-> normalize_category(row.transmission, TRANSMISSION_MAP),
    body_group         |-> normalize_category(row.body_type, BODY_TYPE_MAP),
    color              |-> row.color,
    color_canonical    |-> normalize_color(row.color),
    description        |-> row.description,
    power_kw           |-> row.power_kw,
    images             |-> row.images,
    created_at         |-> row.created_at,
    freshness_days     |-> FreshnessDays(row.created_at, now) ]

-----------------------------------------------------------------------------
(* SimilarityEngine (api.py 565-910).                                      *)

\* SimilarityEngine._norm_value
NormValue(value) ==
  IF normalize_text(value) = None THEN None
  ELSE Lower(strip_accents(normalize_text(value)))

\* _bounded_similarity(diff, window)
BoundedSimilarity(diff, window) ==
  IF window <= 0 THEN ONE \div 2
  ELSE IF diff >= window THEN 0
  ELSE Clamp01(ONE - (diff * ONE) \div window)

\* cat_score of _categorical_similarity
CatScore(a, b) ==
  IF a = None \/ b = None THEN ONE \div 2
  ELSE IF Lower(strip_accents(a)) = Lower(strip_accents(b)) THEN ONE ELSE 0

\* x or None for a group value of the payload
GroupOrNone(g) == IF Truthy(g) THEN g ELSE None

MakeModelScore(target, candidate) ==
  IF None \in { NormValue(target.make), NormValue(target.model),
                NormValue(candidate.make), NormValue(candidate.model) }
    THEN ONE \div 2
  ELSE IF /\ NormValue(target.make) = NormValue(candidate.make)
          /\ NormValue(target.model) = NormValue(candidate.model)
    THEN ONE ELSE 0

\* _categorical_similarity: weights 0.25 / 0.20 / 0.20 / 0.15 / 0.20
CategoricalSimilarity(target, candidate) ==
  ( 2500 * MakeModelScore(target, candidate)
  + 2000 * CatScore(GroupOrNone(target.body_group), GroupOrNone(candidate.body_group))
  + 2000 * CatScore(GroupOrNone(target.fuel_group), GroupOrNone(candidate.fuel_group))
  + 1500 * CatScore(GroupOrNone(target.transmission_group),
                    GroupOrNone(candidate.transmission_group))
  + 2000 * CatScore(target.color_canonical, candidate.color_canonical) ) \div ONE

\* the age component: window max(year_tolerance_years, 0.1) * 12 months, at least 1
AgeScore(target, candidate, tol) ==
  IF target.age_months = NoneNum \/ candidate.age_months = NoneNum THEN ONE \div 2
  ELSE LET window10 == IF tol.year_tolerance_years = 0 THEN 12
                       ELSE tol.year_tolerance_years * 120
       IN  BoundedSimilarity(10 * Abs(candidate.age_months - target.age_months), window10)

\* a mileage component that counts a missing target mileage as a mismatch
MileageScore_missing_is_zero(target, candidate, tol) ==
  IF target.mileage_km = NoneNum THEN 0
  ELSE IF candidate.mileage_km = NoneNum THEN ONE \div 2
  ELSE LET ratio  == MaxOf(tol.mileage_tolerance_ratio, ONE \div 100)
           minwin == MaxOf(tol.mileage_min_window, 0)
           window == MaxOf((target.mileage_km * (ratio \div 100)) \div 100, minwin)
           diff   == Abs(candidate.mileage_km - target.mileage_km)
       IN  BoundedSimilarity(diff, IF window > 0 THEN window
                                   ELSE IF minwin # 0 THEN minwin ELSE 1)

\* the mileage component: window max(|target| * ratio, mileage_min_window)
MileageScore(target, candidate, tol) ==
  IF target.mileage_km = NoneNum \/ candidate.mileage_km = NoneNum THEN ONE \div 2
  ELSE LET ratio  == MaxOf(tol.mileage_tolerance_ratio, ONE \div 100)
           minwin == MaxOf(tol.mileage_min_window, 0)
           window == MaxOf((target.mileage_km * (ratio \div 100)) \div 100, minwin)
           diff   == Abs(candidate.mileage_km - target.mileage_km)
       IN  BoundedSimilarity(diff, IF window > 0 THEN window
                                   ELSE IF minwin # 0 THEN minwin ELSE 1)

\* the power component: window max(|target| * ratio, power_min_window)
PowerScore(target, candidate, tol) ==
  IF target.power_kw = NoneNum \/ candidate.power_kw = NoneNum THEN ONE \div 2
  ELSE LET ratio  == MaxOf(tol.power_tolerance_ratio, ONE \div 100)
           minwin == MaxOf(tol.power_min_window, 0)
           \* in tenths of a kW
           window == MaxOf((target.power_kw * (ratio \div 10)) \div 100, 10 * minwin)
           diff   == 10 * Abs(candidate.power_kw - target.power_kw)
       IN  BoundedSimilarity(diff, IF window > 0 THEN window
                                   ELSE IF minwin # 0 THEN 10 * minwin ELSE 10)

\* _numeric_similarity: weights age 0.40, mileage 0.40, power 0.20
NumericSimilarity(target, candidate, tol) ==
  ( 4000 * AgeScore(target, candidate, tol)
  + 4000 * MileageScore(target, candidate, tol)
  + 2000 * PowerScore(target, candidate, tol) ) \div ONE

\* |a & b| / |a | b|, 0.5 when both are empty
Jaccard(a, b) ==
  IF a \cup b = {} THEN ONE \div 2
  ELSE (Cardinality(a \cap b) * ONE) \div Cardinality(a \cup b)

\* build_text_profile: a description is kept as the token set and the option
\* feature set its text yields
build_text_profile(description) ==
  [tokens |-> description.tokens, features |-> description.features]

\* _textual_similarity: weights feature overlap 0.60, token overlap 0.40
TextualSimilarity(target_profile, candidate_profile) ==
  ( 6000 * Jaccard(target_profile.features, candidate_profile.features)
  + 4000 * Jaccard(target_profile.tokens, candidate_profile.tokens) ) \div ONE

\* SimilarityEngine.score: 0.45 categorical + 0.25 numeric + 0.30 textual, clamped
SimilarityScore(target, candidate, tol) ==
  Clamp01(( 4500 * CategoricalSimilarity(target, candidate)
          + 2500 * NumericSimilarity(target, candidate, tol)
          + 3000 * TextualSimilarity(build_text_profile(target.description),
                                     build_text_profile(candidate.description)) ) \div ONE)

-----------------------------------------------------------------------------
(* compute_deal_score (api.py 1282-1341).                                  *)

\* comps_score before the mileage adjustment
CompsBase(price, percentile, median_price) ==
  IF TruthyNum(median_price) /\ median_price > 0
    THEN Sigmoid(6 * Ratio(median_price - price, median_price))
  ELSE IF percentile = NoneNum THEN ONE \div 2
  ELSE Clamp01(ONE - percentile)

\* the mileage adjustment of comps_score: -0.25 at most for more, +0.15 for less
MileageAdjust(target_mileage, candidate_mileage) ==
  IF ~(TruthyNum(target_mileage) /\ TruthyNum(candidate_mileage)) THEN 0
  ELSE LET r == Ratio(candidate_mileage - target_mileage, MaxOf(target_mileage, 1))
       IN  IF r > 0 THEN 0 - Mul(MinOf((2 * r) \div 3, ONE), 2500)
           ELSE Mul(MinOf((2 * Abs(r)) \div 3, ONE), 1500)

\* whether one of the two math.exp calls raises OverflowError
DealRaises(price, median_price, target_price) ==
  /\ price # NoneNum
  /\ \/ /\ TruthyNum(median_price) /\ median_price > 0
        /\ ExpOverflows(0 - 6 * Ratio(median_price - price, median_price))
     \/ /\ TruthyNum(target_price) /\ target_price > 0
        /\ ExpOverflows(0 - 6 * Ratio(target_price - price, target_price))

compute_deal_score(price, percentile, median_price, target_price, target_mileage, candidate_mileage) ==
  IF price = NoneNum
    THEN [deal |-> ONE \div 2, comparable |-> ONE \div 2, hedonic |-> ONE \div 2,
          price_percentile |-> percentile, median_price |-> median_price]
  ELSE LET comps   == CompsBase(price, percentile, median_price)
                      + MileageAdjust(target_mileage, candidate_mileage)
           hedonic == IF TruthyNum(target_price) /\ target_price > 0
                        THEN Sigmoid(6 * Ratio(target_price - price, target_price))
                      ELSE comps
       IN  [deal |-> Clamp01((comps + hedonic) \div 2),
            comparable |-> comps, hedonic |-> hedonic,
            price_percentile |-> percentile, median_price |-> median_price]

-----------------------------------------------------------------------------
(* score_candidates (api.py 1423-1582).                                    *)

\* sorted(...) of a bag of numbers given as a sequence
RECURSIVE SortAsc(_)
SortAsc(s) ==
  IF s = <<>> THEN <<>>
  ELSE LET m == Min({s[i] : i \in 1..Len(s)})
           k == Min({i \in 1..Len(s) : s[i] = m})
       IN  <<m>> \o SortAsc(SubSeq(s, 1, k - 1) \o SubSeq(s, k + 1, Len(s)))

\* the non-None prices of the payloads, in payload order
RECURSIVE PricesOf(_)
PricesOf(payloads) ==
  IF payloads = <<>> THEN <<>>
  ELSE (IF Head(payloads).price_eur # NoneNum THEN << Head(payloads).price_eur >> ELSE <<>>)
       \o PricesOf(Tail(payloads))

\* statistics.median of a sorted non-empty list (prices are even numbers)
Median(sorted) ==
  LET n == Len(sorted)
  IN  IF n % 2 = 1 THEN sorted[(n + 1) \div 2]
      ELSE (sorted[n \div 2] + sorted[n \div 2 + 1]) \div 2

MedianOrNone(sorted) == IF sorted = <<>> THEN NoneNum ELSE Median(sorted)

\* price_percentile: bisect_left position over len - 1, 0.0 for a single price
price_percentile(price_values, value) ==
  IF value = NoneNum \/ price_values = <<>> THEN NoneNum
  ELSE IF Len(price_values) = 1 THEN 0
  ELSE Clamp01((Cardinality({i \in 1..Len(price_values) : price_values[i] < value}) * ONE)
               \div (Len(price_values) - 1))

\* math.exp(-freshness_days / 30.0), None without freshness_days
FreshnessScore(freshness_days) ==
  IF freshness_days = NoneNum THEN NoneNum ELSE ExpNeg((freshness_days * ONE) \div 30)

\* share of price, mileage, power, description, images that are truthy
TrustScore(payload) ==
  ( ( (IF TruthyNum(payload.price_eur) THEN 1 ELSE 0)
    + (IF TruthyNum(payload.mileage_km) THEN 1 ELSE 0)
    + (IF TruthyNum(payload.power_kw) THEN 1 ELSE 0)
    + (IF payload.description.text THEN 1 ELSE 0)
    + (IF payload.images > 0 THEN 1 ELSE 0) ) * ONE ) \div 5

\* final_score: alpha*match + beta*deal + freshness weight*freshness + trust weight*trust
FinalScore(similarity, deal, freshness, trust, tol) ==
  Clamp01(( tol.rank_alpha * similarity
          + tol.rank_beta * deal
          + tol.rank_freshness * (IF freshness = NoneNum THEN 0 ELSE freshness)
          + tol.rank_trust * trust ) \div ONE)

\* the scored payload of one candidate (api.py 1460-1560)
ScoredPayload(target, payload, price_values, tol) ==
  LET similarity == SimilarityScore(target, payload, tol)
      dealrec    == compute_deal_score(payload.price_eur,
                                       price_percentile(price_values, payload.price_eur),
                                       MedianOrNone(price_values),
                                       target.price_eur,
                                       target.mileage_km,
                                       payload.mileage_km)
      freshness  == FreshnessScore(payload.freshness_days)
      trust      == TrustScore(payload)
  IN  [ id               |-> payload.id,
        price_eur        |-> payload.price_eur,
        mileage_km       |-> payload.mileage_km,
        similarity_score |-> similarity,
        deal_score       |-> dealrec.deal,
        final_score      |-> FinalScore(similarity, dealrec.deal, freshness, trust, tol),
        freshness_score  |-> freshness,
        trust_score      |-> trust,
        mileage_component |-> MileageScore(target, payload, tol),
        deal             |-> dealrec ]

\* list.sort(key=final_score, reverse=True): stable, highest first
RECURSIVE InsertDesc(_, _)
InsertDesc(sorted, p) ==
  IF sorted = <<>> THEN << p >>
  ELSE IF Head(sorted).final_score >= p.final_score
         THEN << Head(sorted) >> \o InsertDesc(Tail(sorted), p)
       ELSE << p >> \o sorted

RECURSIVE SortByFinalDesc(_)
SortByFinalDesc(s) ==
  IF s = <<>> THEN <<>>
  ELSE InsertDesc(SortByFinalDesc(SubSeq(s, 1, Len(s) - 1)), s[Len(s)])

\* min_similarity_threshold = 0.30
min_similarity_threshold == 3000

AboveThreshold(p) == p.similarity_score >= min_similarity_threshold

\* the floor without the re-admission of sub-threshold candidates
QualityFloor_above_only(scored_payloads) == SelectSeq(scored_payloads, AboveThreshold)

\* the quality floor (api.py 1564-1582)
QualityFloor(scored_payloads) ==
  LET above == SelectSeq(scored_payloads, AboveThreshold)
      below == SelectSeq(scored_payloads, LAMBDA p : ~AboveThreshold(p))
  IN  IF 2 * Len(above) < Len(scored_payloads) /\ Len(scored_payloads) > 0
        THEN above \o SubSeq(below, 1, MaxOf(1, Len(below) \div 2))
      ELSE above

\* whether scoring one of the rows raises (math.exp overflow)
ScoreRaises(target, rows, now) ==
  LET payloads == [i \in 1..Len(rows) |-> format_vehicle_payload(rows[i], now)]
      median   == MedianOrNone(SortAsc(PricesOf(payloads)))
  IN  \E i \in 1..Len(rows) :
        DealRaises(payloads[i].price_eur, median, target.price_eur)

\* scored_payloads after the sort: every candidate scored, highest final_score
\* first (api.py 1431-1562)
score_all(target, rows, tol, now) ==
  LET payloads     == [i \in 1..Len(rows) |-> format_vehicle_payload(rows[i], now)]
      price_values == SortAsc(PricesOf(payloads))
      scored_payloads == [i \in 1..Len(rows) |->
                            ScoredPayload(target, payloads[i], price_values, tol)]
  IN  SortByFinalDesc(scored_payloads)

score_candidates(target, rows, tol, now) == QualityFloor(score_all(target, rows, tol, now))

-----------------------------------------------------------------------------
(* GET /listings/<id>/comparables: comparables_endpoint (api.py 1713-1817) *)
(* with find_candidate_rows unfolded into one step per store query.        *)

\* CANDIDATE_LIMIT default of the environment
DefaultCandidateLimit == 400

\* top = max(1, min(int(top_param), 50))
ClampTop(n) == MaxOf(1, MinOf(n, 50))

\* parse_int / parse_float with a default for an absent parameter
ParseOr(raw, default) == IF raw = NoneNum THEN default ELSE raw

\* alpha_weight and beta_weight from the balance parameter (api.py 1737-1751)
RankWeights(balance_param) ==
  LET balance   == MaxOf(0 - ONE, MinOf(ONE, balance_param))
      alpha_raw == MaxOf(1500, 5500 + Mul(balance, 2000))
      beta_raw  == MaxOf(1500, 3000 - Mul(balance, 2000))
      neg       == alpha_raw + beta_raw <= 0
      a         == IF neg THEN 5500 ELSE alpha_raw
      b         == IF neg THEN 3000 ELSE beta_raw
  IN  [alpha |-> MaxOf(1000, MinOf(8500, (a * 8500) \div (a + b))),
       beta  |-> MaxOf(1000, MinOf(8500, (b * 8500) \div (a + b)))]

\* tolerance_config (api.py 1730-1734, 1767-1777)
ToleranceConfig(q) ==
  [ year_tolerance_years    |-> MaxOf(0, ParseOr(q.year_variance, 2)),
    mileage_tolerance_ratio |-> ParseOr(q.mileage_variance_multiplier, 2 * ONE),
    mileage_min_window      |-> ParseOr(q.mileage_min_window, 5000),
    power_tolerance_ratio   |-> ParseOr(q.power_variance_pct, 1500),
    power_min_window        |-> ParseOr(q.power_min_window, 15),
    rank_alpha              |-> RankWeights(q.balance).alpha,
    rank_beta               |-> RankWeights(q.balance).beta,
    rank_freshness          |-> 1000,
    rank_trust              |-> 500 ]

\* fetch_vehicle: the available row with this id, if any (api.py 957-971)
fetch_vehicle(db, vehicle_id) ==
  IF vehicle_id \in DOMAIN db /\ db[vehicle_id].is_vehicle_available
    THEN db[vehicle_id] ELSE NoRecord

NoDebug == [selected_attempt |-> "None", attempts |-> <<>>, warning |-> FALSE, error |-> "None"]

NoResponse == [status |-> 0]

\* the request variables of a handler that is not running
Idle ==
  /\ pc = "idle"
  /\ target_row = NoRecord /\ target_payload = NoRecord /\ target_year = NoneNum
  /\ target_locks = NoRecord
  /\ top = 0 /\ options = [candidate_limit |-> 0, min_results |-> 0]
  /\ tolerances = NoRecord
  /\ attempt = 0 /\ attempt_logs = <<>> /\ best_result = NoRecord /\ query_available = <<>>
  /\ candidates_raw = <<>> /\ candidate_debug = NoDebug
  /\ scored = <<>>
  /\ response = NoResponse

ladderVars == << attempt, attempt_logs, best_result, query_available, candidates_raw, candidate_debug >>

\* The handler up to the first relaxation query: the top parameter, fetch_vehicle,
\* the target payload, the tuning knobs and the make/model guard of
\* find_candidate_rows (api.py 1714-1758, 1066-1091).
Request(vehicle_id, top_param, q) ==
  /\ pc = "idle"
  /\ UNCHANGED << poolVars, cacheVars, scored, store, storeChanges, today >>
  /\ IF top_param[1] # "int"
       THEN /\ response' = [status |-> 400, error |-> "Invalid 'top' parameter"]
            /\ pc' = "done"
            /\ UNCHANGED << target_row, target_payload, target_year, target_locks, top, options,
                            tolerances, ladderVars >>
     ELSE IF fetch_vehicle(store, vehicle_id) = NoRecord
       THEN /\ response' = [status |-> 404, error |-> "Vehicle not found"]
            /\ top' = ClampTop(top_param[2])
            /\ pc' = "done"
            /\ UNCHANGED << target_row, target_payload, target_year, target_locks, options,
                            tolerances, ladderVars >>
     ELSE LET row == fetch_vehicle(store, vehicle_id) IN
          /\ top' = ClampTop(top_param[2])
          /\ target_row' = row
          /\ target_payload' = format_vehicle_payload(row, today)
          /\ target_year' = extract_year(row.first_registration_raw)
          /\ target_locks' = TargetLocks(row)
          /\ tolerances' = ToleranceConfig(q)
          /\ options' = [ candidate_limit |->
                            MaxOf(50, ParseOr(q.max_candidates, DefaultCandidateLimit)),
                          min_results |-> MaxOf(ClampTop(top_param[2]), 5) ]
          /\ UNCHANGED << response, attempt_logs, best_result, query_available, candidates_raw >>
          /\ IF normalize_text(row.make) = None \/ normalize_text(row.model) = None
               THEN /\ candidate_debug' =
                         [NoDebug EXCEPT !.error = "Target vehicle missing make or model"]
                    /\ attempt' = 0
                    /\ pc' = "respond"
               ELSE /\ candidate_debug' = NoDebug
                    /\ attempt' = 1
                    /\ pc' = "ladder"

\* add the _match_strategy key to a row
Annotate(row, name) ==
  [f \in DOMAIN row \cup {"match_strategy"} |->
     IF f = "match_strategy" THEN name ELSE row[f]]

AnnotateAll(rows, name) == [i \in 1..Len(rows) |-> Annotate(rows[i], name)]

\* the ids of the listings marked available
AvailableIds(db) == {i \in DOMAIN db : db[i].is_vehicle_available}

RowIds(rows) == {rows[i].vehicle_id : i \in 1..Len(rows)}

\* the attempt log entry; kept_ids and fetched are what row_count was counted from
AttemptLog(a, fetched, filtered) ==
  [name |-> a.name, row_count |-> Len(filtered),
   kept_ids |-> RowIds(filtered), fetched |-> Len(fetched)]

\* best_result replaced by a cohort that is as large
BetterResult_latest(best, filtered, name) ==
  IF best = NoRecord \/ Len(filtered) >= Len(best.rows)
    THEN [rows |-> filtered, name |-> name] ELSE best

\* best_result after an attempt: replaced only by a strictly larger cohort
BetterResult(best, filtered, name) ==
  IF best = NoRecord \/ Len(filtered) > Len(best.rows)
    THEN [rows |-> filtered, name |-> name] ELSE best

\* an early return that asks for more than min_results rows
EnoughResults_strict(filtered, min_results) == Len(filtered) > min_results

\* the early-return test: len(filtered_rows) >= min_results (api.py 1260)
EnoughResults(filtered, min_results) == Len(filtered) >= min_results

\* what find_candidate_rows returns once the loop is over (api.py 1267-1279)
AfterLoop(best, logs) ==
  IF best # NoRecord /\ Len(best.rows) > 0
    THEN [rows |-> best.rows,
          debug |-> [selected_attempt |-> best.name, attempts |-> logs,
                     warning |-> TRUE, error |-> "None"]]
  ELSE [rows |-> <<>>,
        debug |-> [selected_attempt |-> "None", attempts |-> logs,
                   warning |-> FALSE, error |-> "No candidates found matching filters"]]

\* One iteration of the relaxation loop: the query, the colour and year filter,
\* the log entry, best_result and the early return; after the last attempt the
\* code below the loop (api.py 1140-1279).
AttemptStep ==
  /\ pc = "ladder"
  /\ \E fetched \in { QueryRows(store, target_locks, relaxation_attempts[attempt],
                                options.candidate_limit) } :
     \E filtered \in { AnnotateAll(FilterRows(fetched, target_locks, target_year,
                                              relaxation_attempts[attempt]),
                                   relaxation_attempts[attempt].name) } :
       LET a    == relaxation_attempts[attempt]
           logs == Append(attempt_logs, AttemptLog(a, fetched, filtered))
           best == BetterResult(best_result, filtered, a.name)
       IN  /\ attempt_logs' = logs
           /\ best_result' = best
           /\ query_available' = Append(query_available, AvailableIds(store))
           /\ IF EnoughResults(filtered, options.min_results)
                THEN /\ candidates_raw' = filtered
                     /\ candidate_debug' = [selected_attempt |-> a.name, attempts |-> logs,
                                            warning |-> FALSE, error |-> "None"]
                     /\ pc' = "respond"
                     /\ UNCHANGED attempt
              ELSE IF attempt = Len(relaxation_attempts)
                THEN /\ candidates_raw' = AfterLoop(best, logs).rows
                     /\ candidate_debug' = AfterLoop(best, logs).debug
                     /\ pc' = "respond"
                     /\ UNCHANGED attempt
              ELSE /\ attempt' = attempt + 1
                   /\ UNCHANGED << candidates_raw, candidate_debug, pc >>
  /\ UNCHANGED << poolVars, cacheVars, scored, store, storeChanges, today, target_row,
                  target_payload, target_year, target_locks, top, options, tolerances,
                  response >>

\* metadata of the 200 response (api.py 1786-1815)
Metadata(scored_list, raw, debug, t, tol) ==
  [ requested_top       |-> t,
    returned            |-> Len(FirstN(scored_list, t)),
    total_candidates    |-> Len(scored_list),
    raw_candidates      |-> Len(raw),
    filter_strategy     |-> debug.selected_attempt,
    relaxation_attempts |-> Len(debug.attempts),
    weights             |-> [match |-> tol.rank_alpha, deal |-> tol.rank_beta,
                             freshness |-> tol.rank_freshness, trust |-> tol.rank_trust],
    warning             |-> debug.warning ]

\* The rest of the handler: 404 for an empty cohort, else scoring and the
\* response; an exception of the scoring is answered 500 (api.py 1760-1817).
Respond ==
  /\ pc = "respond"
  /\ pc' = "done"
  /\ IF candidates_raw = <<>>
       THEN /\ scored' = <<>>
            /\ response' = [status |-> 404, error |-> "No comparable vehicles found",
                            debug |-> candidate_debug]
     ELSE IF ScoreRaises(target_payload, candidates_raw, today)
       THEN /\ scored' = <<>>
            /\ response' = [status |-> 500, error |-> "OverflowError"]
     ELSE /\ scored' = score_candidates(target_payload, candidates_raw, tolerances, today)
          /\ response' = [status |-> 200, vehicle |-> target_payload,
                          comparables |-> FirstN(scored', top),
                          metadata |-> Metadata(scored', candidates_raw, candidate_debug,
                                                top, tolerances)]
  /\ UNCHANGED << poolVars, cacheVars, store, storeChanges, today, target_row,
                  target_payload, target_year, target_locks, top, options, tolerances,
                  ladderVars >>

\* the response is sent and the handler's locals are gone
Finish ==
  /\ pc = "done"
  /\ pc' = "idle"
  /\ target_row' = NoRecord /\ target_payload' = NoRecord /\ target_year' = NoneNum
  /\ target_locks' = NoRecord
  /\ top' = 0 /\ options' = [candidate_limit |-> 0, min_results |-> 0]
  /\ tolerances' = NoRecord
  /\ attempt' = 0 /\ attempt_logs' = <<>> /\ best_result' = NoRecord /\ query_available' = <<>>
  /\ candidates_raw' = <<>> /\ candidate_debug' = NoDebug
  /\ scored' = <<>>
  /\ response' = NoResponse
  /\ UNCHANGED << poolVars, cacheVars, store, storeChanges, today >>

-----------------------------------------------------------------------------
(* The endpoint when the store fails: psycopg2 raises out of get_db_cursor *)
(* (api.py 407-420), nothing in comparables_endpoint catches it, and the   *)
(* application registers no error handler, so Flask answers 500.           *)

\* what a store operation can fail with
StoreErrors == { "connection", "timeout", "query" }

\* fetch_vehicle raises (api.py 1722): the top parameter was parsed before it
FetchVehicleFails(top_param, kind) ==
  /\ pc = "idle"
  /\ top_param[1] = "int"
  /\ top' = ClampTop(top_param[2])
  /\ response' = [status |-> 500, error |-> kind]
  /\ pc' = "done"
  /\ UNCHANGED << poolVars, cacheVars, scored, store, storeChanges, today, target_row,
                  target_payload, target_year, target_locks, options, tolerances,
                  ladderVars >>

\* the candidate query of a relaxation attempt raises (api.py 1196-1210)
QueryFails(kind) ==
  /\ pc = "ladder"
  /\ response' = [status |-> 500, error |-> kind]
  /\ pc' = "done"
  /\ UNCHANGED << poolVars, cacheVars, scored, store, storeChanges, today, target_row,
                  target_payload, target_year, target_locks, top, options, tolerances,
                  ladderVars >>

-----------------------------------------------------------------------------
(* The listings the store is filled with.                                  *)

\* number of listings in the store
NumListings == 6

\* number of availability changes ingestion makes during a run
MaxStoreChanges == 1

Ids == 1..NumListings

\* the listings ingestion touches while a request runs
ChangeIds == {2, 3}

IsoDate(y, m, d) == [kind |-> "iso", y |-> y, m |-> m, d |-> d]
MonthYear(m, y)  == [kind |-> "my", y |-> y, m |-> m, d |-> 0]
NoDate           == [kind |-> "none", y |-> 0, m |-> 0, d |-> 0]

Description(tokens, features) == [text |-> TRUE, tokens |-> tokens, features |-> features]
NoDescription == [text |-> FALSE, tokens |-> {}, features |-> {}]

\* datetime.utcnow() of the model: 1 November 2026, day number 1000
Today == [y |-> 2026, m |-> 11, d |-> 1, day |-> 1000]

\* a BMW 3er saloon: petrol, automatic, black, 03/2021, 45 000 km, 25 000 EUR, 120 kW
BaseRow(id) ==
  [ vehicle_id |-> id,
    make |-> <<"B","M","W">>, model |-> <<"3","e","r">>,
    body_type |-> <<"L","i","m","o","u","s","i","n","e">>, fuel_type |-> <<"B","e","n","z","i","n">>,
    transmission |-> <<"A","u","t","o","m","a","t","i","k">>, color |-> <<"S","c","h","w","a","r","z">>,
    first_registration_raw |-> IsoDate(2021, 3, 15),
    mileage_num |-> 45000, price_num |-> 25000, power_kw |-> 120,
    description |-> Description({"leder", "navi", "scheckheft"}, {"heated_seats"}),
    images |-> 3,
    is_vehicle_available |-> TRUE,
    created_at |-> 900 + id ]

\* an Audi A4 estate: diesel, manual, white, 06/2012, 200 000 km, 40 000 EUR, 60 kW,
\* listed long ago, with a description that shares nothing with the BMW's
Stranger(id) ==
  [ vehicle_id |-> id,
    make |-> <<"A","u","d","i">>, model |-> <<"A","4">>,
    body_type |-> <<"K","o","m","b","i">>, fuel_type |-> <<"D","i","e","s","e","l">>,
    transmission |-> <<"S","c","h","a","l","t","g","e","t","r","i","e","b","e">>, color |-> <<"W","e","i","ß">>,
    first_registration_raw |-> IsoDate(2012, 6, 1),
    mileage_num |-> 200000, price_num |-> 40000, power_kw |-> 60,
    description |-> Description({"anhaengerkupplung", "tuev"}, {"tow_bar"}),
    images |-> 1,
    is_vehicle_available |-> TRUE,
    created_at |-> 0 ]

Variants ==
  { "twin", "metallic", "white", "year3", "year5", "mileage", "price", "power",
    "coupe", "padded", "bare", "audi", "sold", "nomake" }

FillerVariants == { "twin", "year3" }

\* the base row changed in one respect
Row(id, variant) ==
  LET b == BaseRow(id) IN
  CASE variant = "twin"     -> b
    [] variant = "metallic" -> [b EXCEPT !.color = <<"s","c","h","w","a","r","z","-","m","e","t","a","l","l","i","c">>]
    [] variant = "white"    -> [b EXCEPT !.color = <<"W","e","i","ß">>]
    [] variant = "year3"    -> [b EXCEPT !.first_registration_raw = MonthYear(6, 2024)]
    [] variant = "year5"    -> [b EXCEPT !.first_registration_raw = IsoDate(2016, 1, 31)]
    [] variant = "mileage"  -> [b EXCEPT !.mileage_num = 75000]
    [] variant = "price"    -> [b EXCEPT !.price_num = 13000]
    [] variant = "power"    -> [b EXCEPT !.power_kw = 145]
    [] variant = "coupe"    -> [b EXCEPT !.body_type = <<"C","o","u","p","é">>]
    [] variant = "padded"   -> [b EXCEPT !.body_type = <<" ","l","i","m","o","u","s","i","n","e"," ">>,
                                         !.fuel_type = <<"B","E","N","Z","I","N">>]
    [] variant = "bare"     -> [b EXCEPT !.body_type = None, !.fuel_type = None,
                                         !.transmission = <<>>, !.color = None,
                                         !.first_registration_raw = NoDate,
                                         !.mileage_num = NoneNum, !.price_num = NoneNum,
                                         !.power_kw = NoneNum,
                                         !.description = NoDescription, !.images = 0]
    [] variant = "audi"     -> [b EXCEPT !.make = <<"A","u","d","i">>, !.model = <<"A","4">>]
    [] variant = "nomake"   -> [b EXCEPT !.make = <<" "," ">>]
    [] variant = "padmake"  -> [b EXCEPT !.make = <<" ","b","m","w"," ">>]
    [] variant = "undated"  -> [b EXCEPT !.created_at = NoneNum]
    [] variant = "marginal" -> [Stranger(id) EXCEPT !.make = b.make, !.model = b.model,
                                                    !.body_type = b.body_type,
                                                    !.first_registration_raw =
                                                       b.first_registration_raw]
    [] variant = "bargain"  -> [Stranger(id) EXCEPT !.price_num = 9000, !.images = 5,
                                                    !.created_at = Today.day]
    [] variant = "stranger" -> Stranger(id)
    [] variant = "sold"     -> [b EXCEPT !.is_vehicle_available = FALSE]
    [] variant = "tie_first"  -> [b EXCEPT !.body_type = None, !.fuel_type = None,
                                           !.transmission = <<>>, !.color = None,
                                           !.price_num = NoneNum,
                                           !.first_registration_raw = IsoDate(2018, 1, 1),
                                           !.mileage_num = 12000, !.power_kw = 90,
                                           !.description = NoDescription,
                                           !.created_at = 0 - 2000]
    [] variant = "tie_second" -> [b EXCEPT !.body_type = None, !.fuel_type = None,
                                           !.transmission = <<>>, !.color = None,
                                           !.price_num = NoneNum,
                                           !.first_registration_raw = IsoDate(2018, 1, 1),
                                           !.mileage_num = 27000, !.power_kw = 90,
                                           !.description = NoDescription, !.images = 0,
                                           !.created_at = 0 - 2001]
    [] variant = "tie_rest"   -> [b EXCEPT !.body_type = None, !.fuel_type = None,
                                           !.transmission = <<>>, !.color = None,
                                           !.price_num = NoneNum,
                                           !.first_registration_raw = IsoDate(2018, 1, 1),
                                           !.mileage_num = 12000, !.power_kw = 90,
                                           !.description = NoDescription, !.images = 0,
                                           !.created_at = 0 - 2000 - id]
    [] variant = "sparse"   -> [b EXCEPT !.body_type = None, !.fuel_type = None,
                                         !.transmission = <<>>, !.color = None,
                                         !.price_num = NoneNum]
    [] variant = "drifted"  -> [b EXCEPT !.body_type = None, !.fuel_type = None,
                                         !.transmission = <<>>, !.color = None,
                                         !.price_num = NoneNum,
                                         !.first_registration_raw = IsoDate(2018, 1, 1),
                                         !.mileage_num = 12000, !.power_kw = 90,
                                         !.description = NoDescription]
    [] variant = "nomileage" -> [b EXCEPT !.mileage_num = NoneNum]
    [] variant = "worn"     -> [b EXCEPT !.mileage_num = 200000]
    [] variant = "noprice"  -> [b EXCEPT !.price_num = NoneNum]
    [] variant = "token"    -> [b EXCEPT !.price_num = 200]

\* the parameters requests are made with
RequestIds == {1, 2, NumListings + 1}

TopParams == { <<"int", 1>>, <<"int", 6>>, <<"text", 0>> }

DefaultQuery ==
  [ year_variance |-> NoneNum, mileage_variance_multiplier |-> NoneNum,
    mileage_min_window |-> NoneNum, power_variance_pct |-> NoneNum,
    power_min_window |-> NoneNum, max_candidates |-> NoneNum, balance |-> 0 ]

Queries == { DefaultQuery }


-----------------------------------------------------------------------------
(* The endpoint over a changing store.                                     *)

vars == << store, storeChanges, today, pc, target_row, target_payload, target_year,
           target_locks, top, options, tolerances, attempt, attempt_logs, best_result,
           query_available, candidates_raw, candidate_debug, scored, response,
           poolVars, cacheVars >>

\* ingestion marks a listing sold or available again
StoreChange(id) ==
  /\ pc = "ladder"
  /\ storeChanges < MaxStoreChanges
  /\ store' = [store EXCEPT ![id].is_vehicle_available = ~@]
  /\ storeChanges' = storeChanges + 1
  /\ UNCHANGED << poolVars, cacheVars, scored, today, pc, target_row, target_payload, target_year, target_locks, top, options,
                  tolerances, ladderVars, response >>

-----------------------------------------------------------------------------
(* score_candidates over every cohort of a bounded set: the handler is     *)
(* taken at the point where find_candidate_rows has returned.              *)

MaxCohort == 3

ScoreVariants == { "twin", "marginal", "bargain", "stranger", "undated" }

\* the cohorts: candidate k has id k + 1, the target has id 1
ScoreCohorts ==
  UNION { { [k \in 1..n |-> Annotate(Row(k + 1, f[k]), "strict")] :
              f \in [1..n -> ScoreVariants] } : n \in 1..MaxCohort }

ScoreTops == { 1, 50 }

\* the default tuning and the tuning that favours the deal score most
ScoreQueries == { DefaultQuery, [DefaultQuery EXCEPT !.balance = 0 - ONE] }

-----------------------------------------------------------------------------
(* get_db_cursor over the ThreadedConnectionPool (api.py 407-420).         *)

PoolSize == 2
NumWorkers == 3

Conns == 1..PoolSize
Workers == 1..NumWorkers

\* what a step of the block can end with: it returns, it raises an Exception,
\* or the thread is cancelled (GeneratorExit, KeyboardInterrupt, SystemExit: a
\* BaseException that "except Exception" does not catch)
Events == { "return", "exception", "cancelled" }

\* a worker outside any get_db_cursor block
NoCursor == [pc |-> "out", conn |-> 0, puts |-> 0, pending |-> "none"]

\* the block with putconn on the path of normal completion only
NextPosition_no_finally(at, event) ==
  CASE at = "cursor"   -> IF event = "return" THEN "body" ELSE "out"
    [] at = "body"     -> IF event = "return" THEN "commit" ELSE "out"
    [] at = "commit"   -> IF event = "return" THEN "finally" ELSE "out"
    [] at = "rollback" -> "out"

\* where control goes from a position of the block: try / except Exception /
\* finally (api.py 412-420)
NextPosition(at, event) ==
  CASE at = "cursor"   -> IF event = "return" THEN "body"
                          ELSE IF event = "exception" THEN "rollback" ELSE "finally"
    [] at = "body"     -> IF event = "return" THEN "commit"
                          ELSE IF event = "exception" THEN "rollback" ELSE "finally"
    [] at = "commit"   -> IF event = "return" THEN "finally"
                          ELSE IF event = "exception" THEN "rollback" ELSE "finally"
    [] at = "rollback" -> "finally"

\* what propagates out of the block once a step ended with event
Pending(before, event) == IF event = "return" THEN before ELSE event

\* one step of the block of worker w, ending with event
Advance(w, at, event) ==
  /\ cursors[w].pc = at
  /\ cursors' = [cursors EXCEPT ![w].pc = NextPosition(at, event),
                                ![w].pending = Pending(@, event)]
  /\ UNCHANGED pool

\* pool.getconn(): a connection leaves the pool, or PoolError when it is exhausted
GetConn(w) ==
  /\ cursors[w].pc = "out"
  /\ IF pool.free = {}
       THEN /\ cursors' = [cursors EXCEPT ![w] = [NoCursor EXCEPT !.pending = "exception"]]
            /\ UNCHANGED pool
     ELSE \E c \in pool.free :
            /\ pool' = [free |-> pool.free \ {c}, used |-> pool.used \cup {c}]
            /\ cursors' = [cursors EXCEPT ![w] = [pc |-> "cursor", conn |-> c, puts |-> 0,
                                                  pending |-> "none"]]

\* conn.cursor(cursor_factory=RealDictCursor)
OpenCursor(w) == \E event \in Events : Advance(w, "cursor", event)

\* the body of the with-block, run at the yield
Body(w) == \E event \in Events : Advance(w, "body", event)

\* conn.commit()
Commit(w) == \E event \in Events : Advance(w, "commit", event)

\* conn.rollback() in the except clause, then raise
Rollback(w) ==
  \E event \in Events :
    /\ cursors[w].pc = "rollback"
    /\ cursors' = [cursors EXCEPT ![w].pc = NextPosition("rollback", event),
                                  ![w].pending = IF event = "cancelled" THEN event
                                                 ELSE "exception"]
    /\ UNCHANGED pool

\* pool.putconn(conn) in the finally clause
PutConn(w) ==
  /\ cursors[w].pc = "finally"
  /\ pool' = [free |-> pool.free \cup {cursors[w].conn},
              used |-> pool.used \ {cursors[w].conn}]
  /\ cursors' = [cursors EXCEPT ![w].pc = "out", ![w].puts = @ + 1]

PoolInit ==
  /\ pool = [free |-> Conns, used |-> {}]
  /\ cursors = [w \in Workers |-> NoCursor]

-----------------------------------------------------------------------------
(* fetch_candidate_rows and its candidate cache (api.py 974-1045).         *)

\* COHORT_CACHE_TTL_SECONDS default
CANDIDATE_CACHE_TTL == 180

ClockStep == 90
MaxClock == 270

\* key = (strip_accents(target_make).lower(), strip_accents(target_model).lower(),
\*        candidate_limit)
CacheKey(target_make, target_model, candidate_limit) ==
  << Lower(strip_accents(target_make)), Lower(strip_accents(target_model)), candidate_limit >>

\* CANDIDATE_CACHE.get(key)
CacheGet(cache, key) ==
  IF \E e \in cache : e.key = key THEN CHOOSE e \in cache : e.key = key ELSE NoRecord

\* CANDIDATE_CACHE[key] = {"ts": now, "rows": rows}
CachePut(cache, key, now, rows) ==
  {e \in cache : e.key # key} \cup { [key |-> key, ts |-> now, rows |-> rows] }

\* an entry that is still served when its age equals the TTL
CacheFresh_inclusive(entry, now) == now - entry.ts <= CANDIDATE_CACHE_TTL

\* now - cache_entry["ts"] < CANDIDATE_CACHE_TTL
CacheFresh(entry, now) == now - entry.ts < CANDIDATE_CACHE_TTL

\* the rows of run_query for the listings matching its condition, newest first,
\* cut at the limit
RunQuery(db, matching, candidate_limit) ==
  LET ids == NewestFirst(db, matching)
  IN  [k \in 1..Len(FirstN(ids, candidate_limit)) |-> db[ids[k]]]

\* is_vehicle_available = true AND vehicle_id != %s AND make = %s AND model = %s
PrimaryCondition(row, target) ==
  /\ row.is_vehicle_available
  /\ row.vehicle_id # target.vehicle_id
  /\ SqlEq(row.make, target.make)
  /\ SqlEq(row.model, target.model)

\* ... AND LOWER(TRIM(make)) = %s AND LOWER(TRIM(model)) = %s
FallbackCondition(row, target) ==
  /\ row.is_vehicle_available
  /\ row.vehicle_id # target.vehicle_id
  /\ row.make # None /\ Lower(SqlTrim(row.make)) = Lower(normalize_text(target.make))
  /\ row.model # None /\ Lower(SqlTrim(row.model)) = Lower(normalize_text(target.model))

\* the rows of the primary query, of the fallback query when the primary has none
QueriedRows(db, target, candidate_limit) ==
  LET primary == RunQuery(db, {i \in DOMAIN db : PrimaryCondition(db[i], target)},
                          candidate_limit)
  IN  IF primary # <<>> THEN primary
      ELSE RunQuery(db, {i \in DOMAIN db : FallbackCondition(db[i], target)},
                    candidate_limit)

\* fetch_candidate_rows: what it returns or raises, and the cache it leaves
fetch_candidate_rows(db, cache, now, target, candidate_limit) ==
  IF normalize_text(target.make) = None \/ normalize_text(target.model) = None
    THEN [raised |-> "ValueError", rows |-> <<>>, hit |-> FALSE, cache |-> cache]
  ELSE LET key   == CacheKey(normalize_text(target.make),
                             normalize_text(target.model), candidate_limit)
           entry == CacheGet(cache, key)
       IN  IF entry # NoRecord /\ CacheFresh(entry, now)
             THEN [raised |-> "None", rows |-> entry.rows, hit |-> TRUE, cache |-> cache]
           ELSE LET rows == QueriedRows(db, target, candidate_limit)
                IN  [raised |-> "None", rows |-> rows, hit |-> FALSE,
                     cache |-> CachePut(cache, key, now, rows)]

NoFetch == [target |-> 0, raised |-> "None", rows |-> <<>>, hit |-> FALSE]

\* one call of fetch_candidate_rows for the listing target_id
FetchCandidateRows(target_id, candidate_limit) ==
  /\ target_id \in DOMAIN store
  /\ LET r == fetch_candidate_rows(store, CANDIDATE_CACHE, clock, store[target_id],
                                   candidate_limit)
     IN  /\ fetch_result' = [target |-> target_id, raised |-> r.raised, rows |-> r.rows,
                             hit |-> r.hit]
         /\ CANDIDATE_CACHE' = r.cache
  /\ UNCHANGED << clock, threadVars, heap, engineVars >>

\* time passes
Tick ==
  /\ clock + ClockStep <= MaxClock
  /\ clock' = clock + ClockStep
  /\ UNCHANGED << CANDIDATE_CACHE, fetch_result, threadVars, heap, engineVars >>

NumThreads == 2

\* the worker threads that serve requests
Threads == 1..NumThreads

\* ingestion marks a listing unavailable between two calls
Delist(id) ==
  /\ storeChanges < MaxStoreChanges
  /\ store[id].is_vehicle_available
  /\ store' = [store EXCEPT ![id].is_vehicle_available = FALSE]
  /\ storeChanges' = storeChanges + 1
  /\ UNCHANGED << today, cacheVars >>

\* a thread outside fetch_candidate_rows
NoCall == [at |-> "idle", target |-> 0, now |-> 0, key |-> << >>, rows |-> << >>]

CacheInit ==
  /\ CANDIDATE_CACHE = {}
  /\ clock = 0
  /\ fetch_result = NoFetch
  /\ threads = [t \in Threads |-> NoCall]
  /\ pool_lock = 0
  /\ pool_created = FALSE
  /\ cache_accesses = {}
  /\ heap = << >>
  /\ RankIdle /\ ColorIdle /\ LadderIdle /\ ConnectionIdle

CacheVariants == { "twin", "audi", "padmake", "nomake", "sold" }

\* max(50, ...): the smallest candidate_limit the endpoint passes
DefaultCacheLimit == 50

CacheLimits == { DefaultCacheLimit }

\* the listings fetch_candidate_rows is called for
FetchTargets == { 1, 2, 3 }

-----------------------------------------------------------------------------
(* fetch_candidate_rows called by several threads at once, statement by    *)
(* statement (api.py 974-1045), with the one mutex of the process,         *)
(* _pool_lock, which get_connection_pool takes to create the pool          *)
(* (api.py 372-404).                                                       *)

\* an access of CANDIDATE_CACHE by thread t, and whether t held a mutex then
CacheAccess(t, op) == [by |-> t, op |-> op, locked |-> pool_lock = t]

\* lines 979-991: the make/model check, the key and now = time.time()
Call(t, target_id) ==
  /\ threads[t].at = "idle"
  /\ target_id \in DOMAIN store
  /\ LET target == store[target_id]
         make   == normalize_text(target.make)
         model  == normalize_text(target.model)
     IN  threads' = [threads EXCEPT ![t] =
           IF make = None \/ model = None
             THEN [NoCall EXCEPT !.at = "raised", !.target = target_id]
           ELSE [at |-> "get", target |-> target_id, now |-> clock,
                 key |-> CacheKey(make, model, DefaultCacheLimit), rows |-> << >>]]
  /\ UNCHANGED << CANDIDATE_CACHE, clock, fetch_result, pool_lock, pool_created,
                  cache_accesses >>

\* lines 992-1000: cache_entry = CANDIDATE_CACHE.get(key) and the TTL test
CacheRead(t) ==
  /\ threads[t].at = "get"
  /\ LET entry == CacheGet(CANDIDATE_CACHE, threads[t].key)
     IN  threads' = [threads EXCEPT ![t] =
           IF entry # NoRecord /\ CacheFresh(entry, threads[t].now)
             THEN [@ EXCEPT !.at = "returned", !.rows = entry.rows]
           ELSE [@ EXCEPT !.at = "pool"]]
  /\ cache_accesses' = cache_accesses \cup { CacheAccess(t, "get") }
  /\ UNCHANGED << CANDIDATE_CACHE, clock, fetch_result, pool_lock, pool_created >>

\* get_connection_pool, first test: the pool exists, no lock is taken
PoolReady(t) ==
  /\ threads[t].at = "pool"
  /\ pool_created
  /\ threads' = [threads EXCEPT ![t].at = "query"]
  /\ UNCHANGED << CANDIDATE_CACHE, clock, fetch_result, pool_lock, pool_created,
                  cache_accesses >>

\* get_connection_pool: with _pool_lock (blocks while another thread holds it)
AcquirePoolLock(t) ==
  /\ threads[t].at = "pool"
  /\ ~pool_created
  /\ pool_lock = 0
  /\ pool_lock' = t
  /\ threads' = [threads EXCEPT ![t].at = "create"]
  /\ UNCHANGED << CANDIDATE_CACHE, clock, fetch_result, pool_created, cache_accesses >>

\* get_connection_pool: the second test, the pool's creation, the lock's release
CreatePool(t) ==
  /\ threads[t].at = "create"
  /\ pool_created' = TRUE
  /\ pool_lock' = 0
  /\ threads' = [threads EXCEPT ![t].at = "query"]
  /\ UNCHANGED << CANDIDATE_CACHE, clock, fetch_result, cache_accesses >>

\* lines 1019-1039: the primary query and, when it has no rows, the fallback
Query(t) ==
  /\ threads[t].at = "query"
  /\ threads' = [threads EXCEPT
       ![t].at = "put",
       ![t].rows = QueriedRows(store, store[threads[t].target], DefaultCacheLimit)]
  /\ UNCHANGED << CANDIDATE_CACHE, clock, fetch_result, pool_lock, pool_created,
                  cache_accesses >>

\* lines 1041-1045: CANDIDATE_CACHE[key] = {"ts": now, "rows": ...}
CacheWrite(t) ==
  /\ threads[t].at = "put"
  /\ CANDIDATE_CACHE' = CachePut(CANDIDATE_CACHE, threads[t].key, threads[t].now,
                                 threads[t].rows)
  /\ cache_accesses' = cache_accesses \cup { CacheAccess(t, "set") }
  /\ threads' = [threads EXCEPT ![t].at = "returned"]
  /\ UNCHANGED << clock, fetch_result, pool_lock, pool_created >>

\* the call is over: its rows go to the caller, or its ValueError does
Return(t) ==
  /\ threads[t].at \in { "returned", "raised" }
  /\ threads' = [threads EXCEPT ![t] = NoCall]
  /\ UNCHANGED << CANDIDATE_CACHE, clock, fetch_result, pool_lock, pool_created,
                  cache_accesses >>

\* time passes while the threads run
ThreadTick ==
  /\ clock + ClockStep <= MaxClock
  /\ clock' = clock + ClockStep
  /\ UNCHANGED << CANDIDATE_CACHE, fetch_result, threadVars >>

-----------------------------------------------------------------------------
(* The objects of fetch_candidate_rows: the rows of cursor.fetchall(), the *)
(* dict(row) copies the cache keeps and the deepcopy(row) copies the       *)
(* caller gets (api.py 999, 1041-1045).  A row object holds its scalar     *)
(* columns and the address of its images list (the JSON column images is   *)
(* decoded to a Python list); CANDIDATE_CACHE and fetch_result hold        *)
(* addresses of row objects here.                                          *)

MaxHeap == 18

RowObject(row, images_at) == [kind |-> "row", row |-> row, images |-> images_at]
ListObject(len) == [kind |-> "list", len |-> len]

\* the row a row object stands for, its images list read through its address
Deref(h, at) == [h[at].row EXCEPT !.images = h[h[at].images].len]

\* cursor.fetchall(): a fresh row object with a fresh images list per row
RECURSIVE Fetchall(_, _)
Fetchall(h, rows) ==
  IF rows = << >> THEN [heap |-> h, refs |-> << >>]
  ELSE LET list_at == Len(h) + 1
           row_at  == Len(h) + 2
           h2      == h \o << ListObject(Head(rows).images),
                              RowObject(Head(rows), list_at) >>
           rest    == Fetchall(h2, Tail(rows))
       IN  [heap |-> rest.heap, refs |-> << row_at >> \o rest.refs]

\* [dict(row) for row in rows]: a new dict per row that shares the row's values
RECURSIVE dict_rows(_, _)
dict_rows(h, refs) ==
  IF refs = << >> THEN [heap |-> h, refs |-> << >>]
  ELSE LET row_at == Len(h) + 1
           h2     == Append(h, RowObject(h[Head(refs)].row, h[Head(refs)].images))
           rest   == dict_rows(h2, Tail(refs))
       IN  [heap |-> rest.heap, refs |-> << row_at >> \o rest.refs]

\* rows handed out as they are, without any copy
alias_rows(h, refs) == [heap |-> h, refs |-> refs]

\* [deepcopy(row) for row in rows]: a new dict per row with a new images list
RECURSIVE deepcopy_rows(_, _)
deepcopy_rows(h, refs) ==
  IF refs = << >> THEN [heap |-> h, refs |-> << >>]
  ELSE LET list_at == Len(h) + 1
           row_at  == Len(h) + 2
           h2      == h \o << ListObject(h[h[Head(refs)].images].len),
                              RowObject(h[Head(refs)].row, list_at) >>
           rest    == deepcopy_rows(h2, Tail(refs))
       IN  [heap |-> rest.heap, refs |-> << row_at >> \o rest.refs]

\* fetch_candidate_rows over the objects: what it returns, the cache and the heap
\* it leaves
fetch_candidate_objects(db, cache, h, now, target, candidate_limit) ==
  LET key   == CacheKey(normalize_text(target.make), normalize_text(target.model),
                        candidate_limit)
      entry == CacheGet(cache, key)
  IN  IF entry # NoRecord /\ CacheFresh(entry, now)
        THEN LET copies == deepcopy_rows(h, entry.rows)
             IN  [rows |-> copies.refs, hit |-> TRUE, cache |-> cache,
                  heap |-> copies.heap]
      ELSE LET fetched == Fetchall(h, QueriedRows(db, target, candidate_limit))
               kept    == dict_rows(fetched.heap, fetched.refs)
               copies  == deepcopy_rows(kept.heap, fetched.refs)
           IN  [rows |-> copies.refs, hit |-> FALSE,
                cache |-> CachePut(cache, key, now, kept.refs), heap |-> copies.heap]

\* one call of fetch_candidate_rows; the caller keeps the returned rows
FetchObjects(target_id, candidate_limit) ==
  /\ target_id \in DOMAIN store
  /\ normalize_text(store[target_id].make) # None
  /\ normalize_text(store[target_id].model) # None
  /\ LET r == fetch_candidate_objects(store, CANDIDATE_CACHE, heap, clock,
                                      store[target_id], candidate_limit)
     IN  /\ Len(r.heap) <= MaxHeap
         /\ fetch_result' = [target |-> target_id, raised |-> "None", rows |-> r.rows,
                             hit |-> r.hit]
         /\ CANDIDATE_CACHE' = r.cache
         /\ heap' = r.heap
  /\ UNCHANGED << clock, threadVars, engineVars >>

\* the caller assigns to a column of a returned row: row["price_num"] = 0
MutateRow(i) ==
  /\ i \in DOMAIN fetch_result.rows
  /\ heap' = [heap EXCEPT ![fetch_result.rows[i]].row.price_num = 0]
  /\ UNCHANGED << CANDIDATE_CACHE, clock, fetch_result, threadVars, engineVars >>

\* the caller changes a nested value of a returned row: row["images"].clear()
MutateNested(i) ==
  /\ i \in DOMAIN fetch_result.rows
  /\ heap' = [heap EXCEPT ![heap[fetch_result.rows[i]].images].len = 0]
  /\ UNCHANGED << CANDIDATE_CACHE, clock, fetch_result, threadVars, engineVars >>

\* time passes between the calls
CopyTick ==
  /\ clock + ClockStep <= MaxClock
  /\ clock' = clock + ClockStep
  /\ UNCHANGED << CANDIDATE_CACHE, fetch_result, threadVars, heap, engineVars >>

-----------------------------------------------------------------------------
(* The specifications.                                                     *)

handlerVars == << pc, target_row, target_payload, target_year, target_locks, top, options,
                  tolerances, attempt, attempt_logs, best_result, query_available,
                  candidates_raw, candidate_debug, scored, response >>

storeVars == << store, storeChanges, today >>

\* ---- the endpoint over a changing store
Init ==
  /\ \E v2 \in Variants, f \in FillerVariants :
       store = [i \in Ids |-> IF i = 1 THEN Row(i, "twin")
                              ELSE IF i = 2 THEN Row(i, v2) ELSE Row(i, f)]
  /\ storeChanges = 0
  /\ today = Today
  /\ Idle
  /\ PoolInit
  /\ CacheInit

Next ==
  \/ \E id \in RequestIds, tp \in TopParams, q \in Queries : Request(id, tp, q)
  \/ AttemptStep
  \/ Respond
  \/ Finish
  \/ \E id \in ChangeIds : StoreChange(id)

Spec == Init /\ [][Next]_vars

\* ---- the scoring step of the handler from every cohort
InitScore ==
  /\ store = [i \in Ids |-> Row(i, "twin")]
  /\ storeChanges = 0
  /\ today = Today
  /\ pc = "respond"
  /\ target_row = Row(1, "twin")
  /\ target_payload = format_vehicle_payload(Row(1, "twin"), Today)
  /\ target_year = extract_year(Row(1, "twin").first_registration_raw)
  /\ target_locks = TargetLocks(Row(1, "twin"))
  /\ top \in ScoreTops
  /\ options = [candidate_limit |-> DefaultCandidateLimit, min_results |-> MaxOf(top, 5)]
  /\ \E q \in ScoreQueries : tolerances = ToleranceConfig(q)
  /\ attempt = 1 /\ attempt_logs = <<>> /\ best_result = NoRecord /\ query_available = <<>>
  /\ candidates_raw \in ScoreCohorts
  /\ candidate_debug = [NoDebug EXCEPT !.selected_attempt = "strict"]
  /\ scored = <<>>
  /\ response = NoResponse
  /\ PoolInit
  /\ CacheInit

NextScore ==
  \/ Respond
  \/ Finish

SpecScore == InitScore /\ [][NextScore]_vars

\* ---- worker threads in get_db_cursor blocks
InitPool ==
  /\ store = [i \in Ids |-> Row(i, "twin")]
  /\ storeChanges = 0
  /\ today = Today
  /\ Idle
  /\ PoolInit
  /\ CacheInit

NextPool ==
  \E w \in Workers :
    /\ \/ GetConn(w)
       \/ OpenCursor(w)
       \/ Body(w)
       \/ Commit(w)
       \/ Rollback(w)
       \/ PutConn(w)
    /\ UNCHANGED << storeVars, handlerVars, cacheVars >>

SpecPool == InitPool /\ [][NextPool]_vars

\* ---- calls of fetch_candidate_rows as time passes
InitCache ==
  /\ \E v2 \in CacheVariants :
       store = [i \in Ids |-> IF i = 2 THEN Row(i, v2) ELSE Row(i, "twin")]
  /\ storeChanges = 0
  /\ today = Today
  /\ Idle
  /\ PoolInit
  /\ CacheInit

NextCache ==
  \/ /\ \E id \in FetchTargets, limit \in CacheLimits : FetchCandidateRows(id, limit)
     /\ UNCHANGED << storeVars, handlerVars, poolVars >>
  \/ /\ Tick
     /\ UNCHANGED << storeVars, handlerVars, poolVars >>
  \/ /\ \E id \in ChangeIds : Delist(id)
     /\ UNCHANGED << handlerVars, poolVars >>

SpecCache == InitCache /\ [][NextCache]_vars


\* fetch_candidate_rows running in several threads over one store
ThreadVariants == { "twin", "nomake" }

\* the listings the threads call fetch_candidate_rows for
ThreadTargets == { 1, 2 }

InitThreads ==
  /\ \E v2 \in ThreadVariants :
       store = [i \in Ids |-> IF i = 2 THEN Row(i, v2) ELSE Row(i, "twin")]
  /\ storeChanges = 0
  /\ today = Today
  /\ Idle
  /\ PoolInit
  /\ CacheInit

NextThreads ==
  \/ /\ \E t \in Threads, id \in ThreadTargets : Call(t, id)
     /\ UNCHANGED << storeVars, handlerVars, poolVars, heap, engineVars >>
  \/ /\ \E t \in Threads : CacheRead(t)
     /\ UNCHANGED << storeVars, handlerVars, poolVars, heap, engineVars >>
  \/ /\ \E t \in Threads : PoolReady(t)
     /\ UNCHANGED << storeVars, handlerVars, poolVars, heap, engineVars >>
  \/ /\ \E t \in Threads : AcquirePoolLock(t)
     /\ UNCHANGED << storeVars, handlerVars, poolVars, heap, engineVars >>
  \/ /\ \E t \in Threads : CreatePool(t)
     /\ UNCHANGED << storeVars, handlerVars, poolVars, heap, engineVars >>
  \/ /\ \E t \in Threads : Query(t)
     /\ UNCHANGED << storeVars, handlerVars, poolVars, heap, engineVars >>
  \/ /\ \E t \in Threads : CacheWrite(t)
     /\ UNCHANGED << storeVars, handlerVars, poolVars, heap, engineVars >>
  \/ /\ \E t \in Threads : Return(t)
     /\ UNCHANGED << storeVars, handlerVars, poolVars, heap, engineVars >>
  \/ /\ ThreadTick
     /\ UNCHANGED << storeVars, handlerVars, poolVars, heap, engineVars >>

SpecThreads == InitThreads /\ [][NextThreads]_vars

\* calls of fetch_candidate_rows whose caller mutates the rows it received
CopyTargets == { 1 }

InitCopy ==
  /\ store = [i \in Ids |-> IF i <= 3 THEN Row(i, "twin") ELSE Row(i, "audi")]
  /\ storeChanges = 0
  /\ today = Today
  /\ Idle
  /\ PoolInit
  /\ CacheInit

NextCopy ==
  \/ /\ \E id \in CopyTargets : FetchObjects(id, DefaultCacheLimit)
     /\ UNCHANGED << storeVars, handlerVars, poolVars >>
  \/ /\ \E i \in 1..NumListings : MutateRow(i)
     /\ UNCHANGED << storeVars, handlerVars, poolVars >>
  \/ /\ \E i \in 1..NumListings : MutateNested(i)
     /\ UNCHANGED << storeVars, handlerVars, poolVars >>
  \/ /\ CopyTick
     /\ UNCHANGED << storeVars, handlerVars, poolVars >>

SpecCopy == InitCopy /\ [][NextCopy]_vars

\* ---- the endpoint at the edges of its inputs and over a store that can fail
EdgeTops == { <<"int", 0>>, <<"int", 1>>, <<"int", 51>>, <<"text", 0>> }

\* balance: below, at and above the ends of [-1, 1] and values between
EdgeBalances == { 0 - 2 * ONE, 0 - ONE, 0 - 5000, 0, 5000, 8000, ONE, 2 * ONE }

\* year_variance=0, mileage_variance_multiplier=0.01, mileage_min_window=1,
\* power_variance_pct=0.01, power_min_window=1
TightQuery ==
  [DefaultQuery EXCEPT !.year_variance = 0, !.mileage_variance_multiplier = 100,
                       !.mileage_min_window = 1, !.power_variance_pct = 100,
                       !.power_min_window = 1]

\* balance=-0.25 (rank_alpha 0.5, rank_beta 0.35), year_variance=0,
\* mileage_variance_multiplier=0.5, power_variance_pct=0.01, power_min_window=1
TieQuery ==
  [DefaultQuery EXCEPT !.balance = 0 - 2500, !.year_variance = 0,
                       !.mileage_variance_multiplier = 5000,
                       !.power_variance_pct = 100, !.power_min_window = 1]

EdgeQueries ==
  { [DefaultQuery EXCEPT !.balance = b] : b \in EdgeBalances } \cup { TightQuery, TieQuery }

\* listing 2 without a make; or a target without a price among listings at a
\* token price; or a target with few attributes among listings that only the
\* last step of the ladder admits; or the same target among such listings of
\* which the two newest reach the same final score under TieQuery; or a target
\* without a mileage among listings with any mileage and none
EdgeStores ==
  { [i \in Ids |-> IF i = 2 THEN Row(i, "nomake") ELSE Row(i, "twin")],
    [i \in Ids |-> IF i = 1 THEN Row(i, "noprice")
                   ELSE IF i < NumListings THEN Row(i, "token") ELSE Row(i, "twin")],
    [i \in Ids |-> IF i = 1 THEN Row(i, "sparse") ELSE Row(i, "drifted")],
    [i \in Ids |-> IF i = 1 THEN Row(i, "sparse")
                   ELSE IF i = 2 THEN Row(i, "tie_first")
                   ELSE IF i = 3 THEN Row(i, "tie_second") ELSE Row(i, "tie_rest")],
    [i \in Ids |-> IF i = 1 THEN Row(i, "nomileage")
                   ELSE IF i = 2 THEN Row(i, "worn")
                   ELSE IF i = 3 THEN Row(i, "nomileage")
                   ELSE IF i = 4 THEN Row(i, "power") ELSE Row(i, "twin")],
    [i \in Ids |-> IF i <= 2 THEN Row(i, "coupe") ELSE Row(i, "twin")],
    [i \in Ids |-> IF i <= 2 THEN Row(i, "padded") ELSE Row(i, "twin")],
    [i \in Ids |-> IF i <= 2 THEN Row(i, "padmake") ELSE Row(i, "twin")] }

InitEdge ==
  /\ store \in EdgeStores
  /\ storeChanges = 0
  /\ today = Today
  /\ Idle
  /\ PoolInit
  /\ CacheInit

NextEdge ==
  \/ \E id \in RequestIds, tp \in EdgeTops, q \in EdgeQueries : Request(id, tp, q)
  \/ \E tp \in EdgeTops, kind \in StoreErrors : FetchVehicleFails(tp, kind)
  \/ AttemptStep
  \/ \E kind \in StoreErrors : QueryFails(kind)
  \/ Respond
  \/ Finish

SpecEdge == InitEdge /\ [][NextEdge]_vars

-----------------------------------------------------------------------------
(* HybridRankingEngine (RankingMODEL/autoscout-ml/src/ranking_pipeline.py). *)
(* A vehicle dict is a record; a key that is absent or None is None for a   *)
(* text and NoneNum for a number.                                           *)

\* value.strip().lower()
SafeLower(value) == Lower(PyStrip(value))

\* exp(-|delta| / tolerance) for a positive tolerance, 0.5 without a delta;
\* delta and tolerance are given in the same unit
ExpSimilarity(delta, tolerance) ==
  IF delta = NoneNum THEN ONE \div 2 ELSE ExpNeg(Ratio(Abs(delta), tolerance))

BinaryMatch(target_value, candidate_value, default) ==
  IF target_value = None \/ candidate_value = None THEN default
  ELSE IF SafeLower(target_value) = SafeLower(candidate_value) THEN ONE ELSE 0

SoftColorMatch(target_color, candidate_color) ==
  IF ~Truthy(target_color) \/ ~Truthy(candidate_color) THEN 6000
  ELSE IF SafeLower(target_color) = SafeLower(candidate_color) THEN ONE
  ELSE 7500

\* the difference of two numbers that are both present
Delta(a, b) == IF a = NoneNum \/ b = NoneNum THEN NoneNum ELSE Abs(a - b)

\* _score_similarity: the weighted components; the weights sum to 1
ScoreSimilarity(target, candidate) ==
  LET age     == ExpSimilarity(IF Delta(target.year, candidate.year) = NoneNum THEN NoneNum
                               ELSE 10 * Delta(target.year, candidate.year), 25)
      tol     == IF Delta(target.mileage_km, candidate.mileage_km) = NoneNum THEN 15000
                 ELSE MaxOf(5000, (Abs(target.mileage_km) * 35) \div 100)
      mileage == ExpSimilarity(Delta(target.mileage_km, candidate.mileage_km), tol)
      power   == ExpSimilarity(Delta(target.power_kw, candidate.power_kw), 8)
      body    == BinaryMatch(target.body_type, candidate.body_type, ONE \div 2)
      trans   == BinaryMatch(target.transmission, candidate.transmission, ONE \div 2)
      fuel    == BinaryMatch(target.fuel_type, candidate.fuel_type, ONE \div 2)
      color   == SoftColorMatch(target.color, candidate.color)
      drive   == BinaryMatch(target.drive_train, candidate.drive_train, 6000)
  IN  Clamp01((20 * age + 25 * mileage + 15 * power + 10 * body + 10 * trans
               + 10 * fuel + 5 * color + 5 * drive) \div 100)

\* clamp(value, lower, upper)
Clamp(value, lower, upper) == MaxOf(lower, MinOf(upper, value))

\* the positive prices among market_prices, in their order
RECURSIVE PositivePrices(_)
PositivePrices(prices) ==
  IF prices = <<>> THEN <<>>
  ELSE (IF Head(prices) # NoneNum /\ Head(prices) > 0 THEN << Head(prices) >> ELSE <<>>)
       \o PositivePrices(Tail(prices))

\* the mileage adjustment of the deal score: up to +0.12 for less, -0.12 for more
DealMileageAdjustment(target_mileage, candidate_mileage) ==
  IF target_mileage = NoneNum \/ candidate_mileage = NoneNum THEN 0
  ELSE IF candidate_mileage < target_mileage
    THEN Clamp((4 * Ratio(target_mileage - candidate_mileage, MaxOf(target_mileage, 1))) \div 10,
               0, 1200)
  ELSE 0 - Clamp((3 * Ratio(candidate_mileage - target_mileage, MaxOf(target_mileage, 1))) \div 10,
                 0, 1200)

\* the target anchor: clamp(anchor_diff * 1.2, -0.25, 0.25)
AnchorScore(target_price, price) ==
  IF target_price = NoneNum \/ target_price <= 0 THEN 0
  ELSE Clamp((12 * Ratio(target_price - price, target_price)) \div 10, 0 - 2500, 2500)

\* _score_deal
ScoreDeal(candidate, market_prices, target_price, target_mileage) ==
  LET price == candidate.price IN
  IF price = NoneNum \/ price <= 0 THEN ONE \div 2
  ELSE LET positive == PositivePrices(market_prices)
           prices   == IF Len(positive) < 3 THEN << price >> ELSE positive
           sorted   == SortAsc(prices)
           med      == Median(sorted)
           market_median  == IF med > 0 THEN med ELSE price
           price_position == ONE \div 2
                             + Clamp((14 * Ratio(market_median - price, market_median)) \div 10,
                                     0 - ONE \div 2, ONE \div 2)
           num_below  == Cardinality({ i \in DOMAIN sorted : sorted[i] <= price })
           percentile == ONE - Ratio(num_below, Len(sorted))
           raw == (55 * price_position + 35 * percentile
                   + 10 * (ONE \div 2 + AnchorScore(target_price, price))) \div 100
       IN  Clamp(raw + DealMileageAdjustment(target_mileage, candidate.mileage_km), 0, ONE)

\* preferences that take the target's own colour for the preferred one
ScorePreferences_own_color(target, candidate) ==
  LET color == IF BinaryMatch(target.color, candidate.color, 0) # 0 THEN ONE ELSE 0
  IN  IF Truthy(target.preferred_drivetrain)
        THEN Clamp01((6 * color
                      + 4 * BinaryMatch(target.preferred_drivetrain, candidate.drive_train, 0))
                     \div 10)
      ELSE Clamp01(color)

\* _score_preferences: the colour priority, and the drivetrain priority when the
\* target names a preferred drivetrain
ScorePreferences(target, candidate) ==
  LET color == IF BinaryMatch(target.preferred_color, candidate.color, 0) # 0 THEN ONE ELSE 0
  IN  IF Truthy(target.preferred_drivetrain)
        THEN Clamp01((6 * color
                      + 4 * BinaryMatch(target.preferred_drivetrain, candidate.drive_train, 0))
                     \div 10)
      ELSE Clamp01(color)

\* the weights of __init__, each divided by their sum
RankWeight(weight) == Ratio(weight, 6000 + 3500 + 500)

\* the entry of one candidate
RankEntry(target, candidates, k) ==
  LET candidate  == candidates[k]
      similarity == ScoreSimilarity(target, candidate)
      deal       == ScoreDeal(candidate, [i \in DOMAIN candidates |-> candidates[i].price],
                              target.price, target.mileage_km)
      preference == ScorePreferences(target, candidate)
  IN  [ vehicle |-> candidate, similarity |-> similarity, deal |-> deal,
        preference |-> preference,
        final_score |-> (similarity * RankWeight(6000) + deal * RankWeight(3500)
                         + preference * RankWeight(500)) \div ONE ]

\* a ranking that keeps the order of the candidates
rank_candidates_unsorted(target, candidates) ==
  [k \in DOMAIN candidates |-> RankEntry(target, candidates, k)]

\* rank_candidates: the entries by non-increasing final score, ties in the
\* order of the candidates
rank_candidates(target, candidates) ==
  SortByFinalDesc([k \in DOMAIN candidates |-> RankEntry(target, candidates, k)])

\* ---- the inputs
MaxRank == 2

\* before rank_candidates has returned
NotRanked == [returned |-> FALSE, entries |-> << >>]

\* the target of the tests: a black petrol SUV, 2021, 45 000 km, 120 kW, 25 000 EUR
RankTarget(color, preferred_color, preferred_drivetrain) ==
  [ id |-> <<"t","a","r","g","e","t">>, price |-> 25000, mileage_km |-> 45000, year |-> 2021,
    fuel_type |-> <<"P","e","t","r","o","l">>, transmission |-> <<"A","u","t","o","m","a","t","i","c">>, body_type |-> <<"S","U","V">>,
    power_kw |-> 120, color |-> color, drive_train |-> <<"A","W","D">>,
    preferred_color |-> preferred_color, preferred_drivetrain |-> preferred_drivetrain ]

RankTargets ==
  { RankTarget(<<"B","l","a","c","k">>, None, None),
    RankTarget(<<"B","l","a","c","k">>, <<"B","l","u","e">>, None),
    RankTarget(<<"B","l","u","e">>, <<"B","l","u","e">>, None),
    RankTarget(None, <<"B","l","u","e">>, None),
    RankTarget(<<"B","l","a","c","k">>, <<"B","l","u","e">>, <<"A","W","D">>) }

RankPrices == { 15000, 19000, 23000, 26000, NoneNum }
RankColors == { <<"B","l","u","e">>, <<" ","b","l","u","e">>, <<"B","l","a","c","k">>, None }

\* a candidate with every attribute, or with a price and a colour only
RankCandidate(kind, price, color) ==
  IF kind = "complete"
    THEN [ price |-> price, mileage_km |-> 43000, year |-> 2021,
           fuel_type |-> <<"P","e","t","r","o","l">>, transmission |-> <<"A","u","t","o","m","a","t","i","c">>, body_type |-> <<"S","U","V">>,
           power_kw |-> 118, color |-> color, drive_train |-> <<"A","W","D">> ]
  ELSE [ price |-> price, mileage_km |-> NoneNum, year |-> NoneNum,
         fuel_type |-> None, transmission |-> None, body_type |-> None,
         power_kw |-> NoneNum, color |-> color, drive_train |-> None ]

RankCandidates ==
  { RankCandidate(kind, price, color) :
      kind \in { "complete", "partial" }, price \in RankPrices, color \in RankColors }

RankCohorts == UNION { [1..n -> RankCandidates] : n \in 1..MaxRank }

\* the comparables service, its pool, cache and threads are at rest
serviceVars == << storeVars, handlerVars, poolVars, CANDIDATE_CACHE, clock, fetch_result,
                  threadVars, heap >>

ServiceIdle ==
  /\ store = [i \in Ids |-> Row(i, "twin")]
  /\ storeChanges = 0
  /\ today = Today
  /\ Idle
  /\ PoolInit
  /\ CANDIDATE_CACHE = {} /\ clock = 0 /\ fetch_result = NoFetch
  /\ threads = [t \in Threads |-> NoCall]
  /\ pool_lock = 0 /\ pool_created = FALSE /\ cache_accesses = {}
  /\ heap = << >>

InitRank ==
  /\ ServiceIdle
  /\ ColorIdle /\ LadderIdle /\ ConnectionIdle
  /\ rank_target \in RankTargets
  /\ rank_cohort \in RankCohorts
  /\ ranked = NotRanked

\* one call of rank_candidates
Rank ==
  /\ ~ranked.returned
  /\ ranked' = [returned |-> TRUE, entries |-> rank_candidates(rank_target, rank_cohort)]
  /\ UNCHANGED << rank_target, rank_cohort, color_call, ladder_call, connection_call >>
  /\ UNCHANGED serviceVars

NextRank == Rank

SpecRank == InitRank /\ [][NextRank]_vars

-----------------------------------------------------------------------------
(* normalize_color applied to a value and again to its own result          *)
(* (api.py 276-301).                                                       *)

MaxNormalizeCalls == 2

\* the second column of a (key, value) table, the first column, as sets
MapKeys(m) == { m[i][1] : i \in 1..Len(m) }

MapValues(m) == { m[i][2] : i \in 1..Len(m) }

\* raw colour values: every synonym and every canonical name of the tables,
\* composite and keyword-bearing values, literals no table knows, and values
\* that hold nothing but padding or a dash
ColorLiterals ==
  { None, <<>>, <<" "," ">>, <<"-">>, <<" ","-"," ">>, <<"-","-">>, <<"B","l","u","e","-">>, <<"n","/","a">>, <<"T","u","r","q","u","o","i","s","e">>,
    <<" ","B","L","A","U"," ">>, <<"S","c","h","w","a","r","z"," ","/"," ","W","e","i","ß">>, <<"P","e","r","l","-","W","e","i","s","s"," ","M","e","t","a","l","l","i","c">>, <<"C","a","f","é"," ","a","u"," ","l","a","i","t">>,
    <<"T","i","e","f","s","c","h","w","a","r","z">>, <<"r","o","t"," ","u","n","d"," ","s","c","h","w","a","r","z">>, <<"-","/","-">> }

ColorInputs ==
  MapKeys(COLOR_CANONICAL_MAP) \cup MapValues(COLOR_CANONICAL_MAP)
    \cup MapKeys(COLOR_KEYWORD_MAP) \cup ColorLiterals

InitColor ==
  /\ ServiceIdle
  /\ RankIdle /\ LadderIdle /\ ConnectionIdle
  /\ \E v \in ColorInputs : color_call = [value |-> v, results |-> << >>]

\* one more call: of the raw value first, then of the previous result
NormalizeColor ==
  /\ color_call # NoRecord
  /\ Len(color_call.results) < MaxNormalizeCalls
  /\ LET argument == IF color_call.results = << >> THEN color_call.value
                     ELSE color_call.results[Len(color_call.results)]
     IN  color_call' = [color_call EXCEPT !.results = Append(@, normalize_color(argument))]
  /\ UNCHANGED << rankVars, ladder_call, connection_call >>
  /\ UNCHANGED serviceVars

NextColor == NormalizeColor

SpecColor == InitColor /\ [][NextColor]_vars

-----------------------------------------------------------------------------
(* The relaxation ladder of the ranking service                            *)
(* (RankingMODEL/autoscout-ml/src/api.py 330-461).                         *)

\* int(os.getenv("CANDIDATE_LIMIT", "400"))
ServiceCandidateLimit == 400

\* tuple(sorted(attempt.items())): the (key, value) pairs in key order, the
\* attempt's name among them
AttemptSignature(a) ==
  << <<"body", a.body>>, <<"color", a.color>>, <<"fuel", a.fuel>>, <<"name", a.name>>,
     <<"transmission", a.transmission>> >>

\* the loop over attempts with its seen set
RECURSIVE Deduplicate(_, _)
Deduplicate(attempts, seen) ==
  IF attempts = << >> THEN << >>
  ELSE LET signature == AttemptSignature(Head(attempts))
       IN  IF signature \notin seen
             THEN << Head(attempts) >> \o Deduplicate(Tail(attempts), seen \cup { signature })
           ELSE Deduplicate(Tail(attempts), seen)

build_attempts(row) ==
  LET has_color        == Truthy(row.color)
      has_body         == Truthy(row.body_type)
      has_transmission == Truthy(row.transmission)
      has_fuel         == Truthy(row.fuel_type)
      attempts ==
        << [name |-> "strict", color |-> has_color, body |-> has_body,
            transmission |-> has_transmission, fuel |-> has_fuel],
           [name |-> "relaxed_color", color |-> FALSE, body |-> has_body,
            transmission |-> has_transmission, fuel |-> has_fuel],
           [name |-> "relaxed_color_body", color |-> FALSE, body |-> FALSE,
            transmission |-> has_transmission, fuel |-> has_fuel],
           [name |-> "relaxed_drivetrain", color |-> FALSE, body |-> FALSE,
            transmission |-> FALSE, fuel |-> has_fuel],
           [name |-> "make_model_only", color |-> FALSE, body |-> FALSE,
            transmission |-> FALSE, fuel |-> FALSE] >>
  IN  Deduplicate(attempts, {})

\* the conditions one attempt puts into its WHERE clause besides availability,
\* vehicle_id, make and model (api.py 382-402)
EffectivePredicates(row, tyear, a) ==
  [ fuel         |-> a.fuel /\ Truthy(row.fuel_type),
    transmission |-> a.transmission /\ Truthy(row.transmission),
    body         |-> a.body /\ Truthy(row.body_type),
    color        |-> a.color /\ Truthy(row.color),
    year         |-> TruthyNum(tyear) ]

\* the WHERE clause on a listing; a NULL column fails an equality, and the
\* year is the first four characters of an ISO date
ServiceWhere(listing, row, tyear, a) ==
  LET p == EffectivePredicates(row, tyear, a) IN
  /\ listing.is_vehicle_available
  /\ listing.vehicle_id # row.vehicle_id
  /\ listing.make = row.make /\ listing.model = row.model
  /\ p.fuel => listing.fuel_type = row.fuel_type
  /\ p.transmission => listing.transmission = row.transmission
  /\ p.body => listing.body_type = row.body_type
  /\ p.color => listing.color = row.color
  /\ p.year => /\ listing.first_registration_raw.kind = "iso"
               /\ listing.first_registration_raw.y >= tyear - 2
               /\ listing.first_registration_raw.y <= tyear + 2

\* the range checks on a fetched row (api.py 439-449): price within 60%..140%
\* of the target's, mileage at most twice the target's
RangeKeep(listing, row) ==
  LET target_price   == normalise_price(row.price_num)
      target_mileage == normalise_mileage(row.mileage_num)
      row_price      == normalise_price(listing.price_num)
      row_mileage    == normalise_mileage(listing.mileage_num)
  IN  /\ (target_price # NoneNum /\ target_price > 0) =>
            /\ row_price # NoneNum
            /\ 10 * row_price >= 6 * target_price
            /\ 10 * row_price <= 14 * target_price
      /\ ~ ( /\ target_mileage # NoneNum /\ target_mileage > 0
             /\ TruthyNum(row_mileage)
             /\ row_mileage > 2 * target_mileage )

\* the rows one attempt fetches, newest first, and those it keeps
ServiceFetch(db, row, tyear, a) ==
  LET ids == FirstN(NewestFirst(db, { i \in DOMAIN db : ServiceWhere(db[i], row, tyear, a) }),
                    ServiceCandidateLimit)
  IN  [k \in 1..Len(ids) |-> db[ids[k]]]

ServiceFiltered(rows, row) == SelectSeq(rows, LAMBDA r : RangeKeep(r, row))

\* ---- inputs: the base listing with each of colour, body type, transmission
\* and fuel present, NULL or empty; stores that answer at the strict step, at
\* a later step, and at none
Presence == { "set", "null", "empty" }

Lacking(value, presence) ==
  IF presence = "set" THEN value ELSE IF presence = "null" THEN None ELSE << >>

LadderTargets ==
  { [BaseRow(1) EXCEPT !.color = Lacking(@, c), !.body_type = Lacking(@, b),
                       !.transmission = Lacking(@, t), !.fuel_type = Lacking(@, f)] :
      c \in Presence, b \in Presence, t \in Presence, f \in Presence }

LadderStores ==
  { [i \in Ids |-> Row(i, "sold")],
    [i \in Ids |-> IF i = 2 THEN Row(i, "twin") ELSE Row(i, "sold")],
    [i \in Ids |-> IF i = 2 THEN Row(i, "white") ELSE Row(i, "sold")],
    [i \in Ids |-> IF i = 2 THEN Row(i, "price") ELSE Row(i, "sold")] }

InitLadder ==
  /\ ServiceIdle
  /\ RankIdle /\ ColorIdle /\ ConnectionIdle
  /\ \E row \in LadderTargets, db \in LadderStores :
       ladder_call = [ pc |-> "start", target_row |-> row, listings |-> db,
                       target_year |-> extract_year(row.first_registration_raw),
                       attempts |-> << >>, index |-> 1, queries |-> << >>,
                       returned |-> << >> ]

\* find_candidate_rows up to its loop: the attempts are built
BuildAttempts ==
  /\ ladder_call # NoRecord /\ ladder_call.pc = "start"
  /\ ladder_call' = [ladder_call EXCEPT !.pc = "loop",
                                        !.attempts = build_attempts(ladder_call.target_row)]
  /\ UNCHANGED << rankVars, color_call, connection_call >>
  /\ UNCHANGED serviceVars

\* one pass of the loop: the query, the range checks, and the return when a
\* row is left
RunAttempt ==
  /\ ladder_call # NoRecord /\ ladder_call.pc = "loop"
  /\ ladder_call.index <= Len(ladder_call.attempts)
  /\ LET a        == ladder_call.attempts[ladder_call.index]
         rows     == ServiceFetch(ladder_call.listings, ladder_call.target_row,
                                  ladder_call.target_year, a)
         filtered == ServiceFiltered(rows, ladder_call.target_row)
         asked    == Append(ladder_call.queries,
                            EffectivePredicates(ladder_call.target_row,
                                                ladder_call.target_year, a))
     IN  IF rows # << >> /\ filtered # << >>
           THEN ladder_call' = [ladder_call EXCEPT !.pc = "done", !.queries = asked,
                                                   !.returned = filtered]
         ELSE ladder_call' = [ladder_call EXCEPT !.index = @ + 1, !.queries = asked]
  /\ UNCHANGED << rankVars, color_call, connection_call >>
  /\ UNCHANGED serviceVars

\* the loop ran out of attempts: return []
LadderExhausted ==
  /\ ladder_call # NoRecord /\ ladder_call.pc = "loop"
  /\ ladder_call.index > Len(ladder_call.attempts)
  /\ ladder_call' = [ladder_call EXCEPT !.pc = "done", !.returned = << >>]
  /\ UNCHANGED << rankVars, color_call, connection_call >>
  /\ UNCHANGED serviceVars

NextLadder == BuildAttempts \/ RunAttempt \/ LadderExhausted

SpecLadder == InitLadder /\ [][NextLadder]_vars

-----------------------------------------------------------------------------
(* VehicleDatabase._get_connection and _put_connection                     *)
(* (website/vehicle_data-main 2/database/db.py 134-177).                   *)

\* connections the pool may hold (maxconn) and the largest retries tried
DbMaxConn == 3

MaxRetries == 5

Connections == 1..DbMaxConn

\* the except branch: count the attempt, raise at the last one, else sleep
\* and go round the loop again
AfterException(call) ==
  [call EXCEPT !.attempt = @ + 1,
               !.conn = 0,
               !.pc = IF call.attempt + 1 = call.retries THEN "raised" ELSE "getconn"]

\* a pool with some idle connections, the others not yet opened, and a caller
\* entering _get_connection(retries)
InitConnection ==
  /\ ServiceIdle
  /\ RankIdle /\ ColorIdle /\ LadderIdle
  /\ \E n \in 1..MaxRetries, free \in SUBSET Connections :
       connection_call = [ pc |-> "getconn", retries |-> n, attempt |-> 0, conn |-> 0,
                           idle |-> free, used |-> {}, obtained |-> {}, getconn_calls |-> 0,
                           result |-> 0 ]

\* connection_pool.getconn() hands out c: an idle connection, or a new one
\* when none is idle and the pool is not full
DbGetConn(c) ==
  /\ connection_call # NoRecord /\ connection_call.pc = "getconn"
  /\ connection_call.attempt < connection_call.retries
  /\ c \notin connection_call.used
  /\ connection_call.idle # {} => c \in connection_call.idle
  /\ connection_call' = [connection_call EXCEPT !.pc = "probe", !.conn = c,
                                                !.idle = @ \ {c}, !.used = @ \cup {c},
                                                !.obtained = @ \cup {c},
                                                !.getconn_calls = @ + 1]
  /\ UNCHANGED << rankVars, color_call, ladder_call >>
  /\ UNCHANGED serviceVars

\* getconn() raises: the pool is exhausted, or the new connection cannot be
\* opened
GetConnRaises ==
  /\ connection_call # NoRecord /\ connection_call.pc = "getconn"
  /\ connection_call.attempt < connection_call.retries
  /\ connection_call.idle = {}
  /\ connection_call' = [AfterException(connection_call) EXCEPT !.getconn_calls = @ + 1]
  /\ UNCHANGED << rankVars, color_call, ladder_call >>
  /\ UNCHANGED serviceVars

\* SELECT 1 succeeds: return conn
ProbeSucceeds ==
  /\ connection_call # NoRecord /\ connection_call.pc = "probe"
  /\ connection_call' = [connection_call EXCEPT !.pc = "returned", !.result = connection_call.conn]
  /\ UNCHANGED << rankVars, color_call, ladder_call >>
  /\ UNCHANGED serviceVars

\* conn.cursor() or SELECT 1 raises on a connection the server has dropped
ProbeFails ==
  /\ connection_call # NoRecord /\ connection_call.pc = "probe"
  /\ connection_call' = AfterException(connection_call)
  /\ UNCHANGED << rankVars, color_call, ladder_call >>
  /\ UNCHANGED serviceVars

\* the caller's finally: _put_connection(conn) of the connection it was given
PutConnection ==
  /\ connection_call # NoRecord /\ connection_call.pc = "returned"
  /\ connection_call' = [connection_call EXCEPT !.pc = "released",
                                                !.used = @ \ {connection_call.result},
                                                !.idle = @ \cup {connection_call.result}]
  /\ UNCHANGED << rankVars, color_call, ladder_call >>
  /\ UNCHANGED serviceVars

NextConnection ==
  \/ \E c \in Connections : DbGetConn(c)
  \/ GetConnRaises
  \/ ProbeSucceeds
  \/ ProbeFails
  \/ PutConnection

SpecConnection == InitConnection /\ [][NextConnection]_vars

-----------------------------------------------------------------------------
(* Properties of candidate retrieval.                                      *)

\* the ladder's step names in their order
LadderOrder == << "strict", "relaxed_year", "relaxed_mileage", "relaxed_price", "relaxed_power" >>

\* the ids kept by any step of the running request
KeptAnywhere == UNION { attempt_logs[i].kept_ids : i \in DOMAIN attempt_logs }

\* the hard locks of target t on candidate c, each after normalisation
HardLocksHold(t, c) ==
  /\ normalize_text(c.make) = normalize_text(t.make)
  /\ normalize_text(c.model) = normalize_text(t.model)
  /\ normalize_category(t.body_type, BODY_TYPE_MAP) # None =>
       normalize_category(c.body_type, BODY_TYPE_MAP)
         = normalize_category(t.body_type, BODY_TYPE_MAP)
  /\ normalize_category(t.fuel_type, FUEL_MAP) # None =>
       normalize_category(c.fuel_type, FUEL_MAP) = normalize_category(t.fuel_type, FUEL_MAP)
  /\ normalize_category(t.transmission, TRANSMISSION_MAP) # None =>
       normalize_category(c.transmission, TRANSMISSION_MAP)
         = normalize_category(t.transmission, TRANSMISSION_MAP)
  /\ normalize_color(t.color) # None => normalize_color(c.color) = normalize_color(t.color)

\* C1: when find_candidate_rows has returned, every row it returned and every
\* row any of its steps kept satisfies each hard lock whose target value is
\* non-empty: make, model, body type, fuel type, transmission and colour agree
\* with the target's after normalisation.
C1_HardLocksHold ==
  pc = "respond" =>
    /\ \A id \in KeptAnywhere : HardLocksHold(target_row, store[id])
    /\ \A j \in DOMAIN candidates_raw : HardLocksHold(target_row, candidates_raw[j])

\* a cohort was returned for a coloured target while an available listing equal
\* to the target in every other lock but of another colour stayed out
C1_Witness ==
  /\ pc = "respond"
  /\ candidates_raw # <<>>
  /\ normalize_color(target_row.color) # None
  /\ \E id \in DOMAIN store :
       /\ store[id].is_vehicle_available
       /\ id # target_row.vehicle_id
       /\ id \notin RowIds(candidates_raw)
       /\ store[id].color # None
       /\ normalize_color(store[id].color) # normalize_color(target_row.color)
       /\ HardLocksHold([target_row EXCEPT !.color = None], store[id])

\* C2: every row kept by a ladder step, and every row of the returned cohort,
\* has an id other than the target's and was marked available in the store when
\* the query of the step that kept it ran.
C2_NotTargetAndAvailable ==
  /\ \A i \in DOMAIN attempt_logs :
       \A id \in attempt_logs[i].kept_ids :
         id # target_row.vehicle_id /\ id \in query_available[i]
  /\ \A j \in DOMAIN candidates_raw :
       /\ candidates_raw[j].vehicle_id # target_row.vehicle_id
       /\ \E i \in DOMAIN attempt_logs :
            /\ attempt_logs[i].name = candidates_raw[j].match_strategy
            /\ candidates_raw[j].vehicle_id \in query_available[i]

\* a returned cohort holds a listing that was sold after the query that kept it
C2_Witness ==
  /\ pc = "respond"
  /\ \E j \in DOMAIN candidates_raw :
       ~ store[candidates_raw[j].vehicle_id].is_vehicle_available

\* C3: the steps run in the order strict, relaxed_year, relaxed_mileage,
\* relaxed_price, relaxed_power; no step is queried after one that kept at least
\* min_results rows; the function returns that step's rows at once and names it,
\* and the 200 response reports it as the filter strategy with
\* relaxation_attempts equal to its 1-based index.
C3_FirstSufficientStep ==
  /\ \A i \in DOMAIN attempt_logs :
       /\ attempt_logs[i].name = LadderOrder[i]
       /\ attempt_logs[i].row_count = Cardinality(attempt_logs[i].kept_ids)
       /\ i < Len(attempt_logs) => attempt_logs[i].row_count < options.min_results
  /\ pc = "ladder" =>
       /\ attempt = Len(attempt_logs) + 1
       /\ \A i \in DOMAIN attempt_logs : attempt_logs[i].row_count < options.min_results
  /\ ( /\ pc \in {"respond", "done"}
       /\ attempt_logs # <<>>
       /\ attempt_logs[Len(attempt_logs)].row_count >= options.min_results ) =>
       /\ RowIds(candidates_raw) = attempt_logs[Len(attempt_logs)].kept_ids
       /\ Len(candidates_raw) = attempt_logs[Len(attempt_logs)].row_count
       /\ candidate_debug.selected_attempt = LadderOrder[Len(attempt_logs)]
       /\ candidate_debug.attempts = attempt_logs
       /\ (pc = "done" /\ response.status = 200) =>
            /\ response.metadata.filter_strategy = LadderOrder[Len(attempt_logs)]
            /\ response.metadata.relaxation_attempts = Len(attempt_logs)

\* the ladder stopped at relaxed_year and the response says so
C3_Witness ==
  /\ pc = "done"
  /\ response.status = 200
  /\ Len(attempt_logs) = 2
  /\ attempt_logs[1].row_count < options.min_results
  /\ response.metadata.filter_strategy = "relaxed_year"
  /\ response.metadata.relaxation_attempts = 2

\* no step of the request kept min_results rows
NoStepReached ==
  \A i \in DOMAIN attempt_logs : attempt_logs[i].row_count < options.min_results

\* the earliest of the steps that kept the most rows
BestStep ==
  CHOOSE i \in DOMAIN attempt_logs :
    /\ \A j \in DOMAIN attempt_logs : attempt_logs[j].row_count <= attempt_logs[i].row_count
    /\ \A j \in 1..(i - 1) : attempt_logs[j].row_count < attempt_logs[i].row_count

\* C4: for a target with make and model, when find_candidate_rows has returned
\* and no step kept min_results rows, all five steps ran; if some step kept a
\* row the cohort is that of the earliest step with the most rows, named as the
\* selected attempt and flagged with a warning that the 200 response carries;
\* if every step kept none the cohort is empty and the response is a 404 whose
\* debug payload holds the five per-step row counts.
C4_BestEffort ==
  ( /\ pc \in {"respond", "done"}
    /\ target_locks # NoRecord
    /\ target_locks.make # None /\ target_locks.model # None
    /\ NoStepReached ) =>
    /\ Len(attempt_logs) = Len(LadderOrder)
    /\ IF attempt_logs[BestStep].row_count > 0
         THEN /\ RowIds(candidates_raw) = attempt_logs[BestStep].kept_ids
              /\ \A j \in DOMAIN candidates_raw :
                   candidates_raw[j].match_strategy = LadderOrder[BestStep]
              /\ candidate_debug.selected_attempt = LadderOrder[BestStep]
              /\ candidate_debug.warning
              /\ (pc = "done" /\ response.status = 200) => response.metadata.warning
       ELSE /\ candidates_raw = <<>>
            /\ pc = "done" =>
                 /\ response.status = 404
                 /\ Len(response.debug.attempts) = Len(LadderOrder)
                 /\ \A i \in DOMAIN attempt_logs :
                      /\ response.debug.attempts[i].name = LadderOrder[i]
                      /\ response.debug.attempts[i].row_count = 0

\* the ladder was exhausted, its third step kept the most rows and later steps
\* kept as many
C4_Witness ==
  /\ pc = "respond"
  /\ Len(attempt_logs) = 5
  /\ NoStepReached
  /\ BestStep = 3
  /\ attempt_logs[5].row_count = attempt_logs[3].row_count
  /\ candidate_debug.selected_attempt = "relaxed_mileage"
  /\ candidate_debug.warning

\* the store looked the same to every query of the request
StoreUnchangedDuringRequest ==
  \A i, j \in DOMAIN query_available : query_available[i] = query_available[j]

\* no query of the request fetched as many rows as candidate_limit allows
NoTruncation ==
  \A i \in DOMAIN attempt_logs : attempt_logs[i].fetched < options.candidate_limit

\* C5: when the store was the same at every query of a request and no query
\* was cut by candidate_limit, the rows kept at step k are among the rows kept
\* at step k+1, for every k in 1..4.
C5_RelaxationMonotone ==
  (StoreUnchangedDuringRequest /\ NoTruncation) =>
    \A k \in DOMAIN attempt_logs :
      k < Len(attempt_logs) => attempt_logs[k].kept_ids \subseteq attempt_logs[k + 1].kept_ids

\* all five steps ran over an unchanged store and the last kept more than the first
C5_Witness ==
  /\ Len(attempt_logs) = 5
  /\ StoreUnchangedDuringRequest /\ NoTruncation
  /\ attempt_logs[1].kept_ids # {}
  /\ attempt_logs[1].kept_ids # attempt_logs[5].kept_ids

-----------------------------------------------------------------------------
(* Properties of scoring.                                                  *)

\* s is ordered by non-increasing final score
SortedByFinal(s) ==
  \A i \in 1..(Len(s) - 1) : s[i].final_score >= s[i + 1].final_score

\* C6: the list returned by score_candidates, and the comparables of a 200
\* response cut from it, are ordered by non-increasing final score.
C6_SortedByFinalScore ==
  /\ SortedByFinal(scored)
  /\ (pc = "done" /\ response.status = 200) => SortedByFinal(response.comparables)

\* the ids of the payloads of s at the positions in S
IdsAt(s, S) == { s[i].id : i \in S }

\* C7: with A the candidates whose match is at least 0.30 and B the others,
\* score_candidates returns exactly A when A is at least half of the scored
\* candidates; otherwise it returns A and the max(1, |B| div 2) members of B
\* with the highest final scores, and nothing else.
C7_QualityFloor ==
  (pc = "done" /\ response.status = 200) =>
    LET all   == score_all(target_payload, candidates_raw, tolerances, today)
        above == { i \in DOMAIN all : 10 * all[i].similarity_score >= 3 * ONE }
        below == DOMAIN all \ above
    IN  IF 2 * Cardinality(above) >= Len(all)
          THEN /\ IdsAt(scored, DOMAIN scored) = IdsAt(all, above)
               /\ Len(scored) = Cardinality(above)
        ELSE \E kept \in SUBSET below :
               /\ Cardinality(kept) = MaxOf(1, Cardinality(below) \div 2)
               /\ \A i \in kept, j \in below \ kept :
                    all[i].final_score >= all[j].final_score
               /\ IdsAt(scored, DOMAIN scored) = IdsAt(all, above \cup kept)
               /\ Len(scored) = Cardinality(above) + Cardinality(kept)

\* of three candidates one has a match of 0.30 or more; it is returned with one
\* of the two others
C7_Witness ==
  /\ pc = "done" /\ response.status = 200
  /\ Len(candidates_raw) = 3
  /\ Len(scored) = 2
  /\ \E i, j \in DOMAIN scored :
       /\ 10 * scored[i].similarity_score >= 3 * ONE
       /\ 10 * scored[j].similarity_score < 3 * ONE

\* x is a number between 0.0 and 1.0
IsUnitScore(x) == x # NoneNum /\ 0 <= x /\ x <= ONE

\* C8: every comparable of a 200 response has match, deal, freshness, trust and
\* final scores that are numbers in [0,1].
C8_ScoresInUnitInterval ==
  (pc = "done" /\ response.status = 200) =>
    \A i \in DOMAIN response.comparables :
      /\ IsUnitScore(response.comparables[i].similarity_score)
      /\ IsUnitScore(response.comparables[i].deal_score)
      /\ IsUnitScore(response.comparables[i].freshness_score)
      /\ IsUnitScore(response.comparables[i].trust_score)
      /\ IsUnitScore(response.comparables[i].final_score)

\* the position at which the listing was retrieved from the store
RetrievalIndex(id) ==
  CHOOSE k \in DOMAIN candidates_raw : candidates_raw[k].vehicle_id = id

\* in s, payloads with equal final scores stand in the order of retrieval
TiesInRetrievalOrder(s) ==
  \A i, j \in DOMAIN s :
    (i < j /\ s[i].final_score = s[j].final_score)
      => RetrievalIndex(s[i].id) < RetrievalIndex(s[j].id)

\* C19: candidates with equal final scores appear in the list returned by
\* score_candidates, and in the comparables of a 200 response, in the relative
\* order in which they were retrieved from the store.
C19_TiesKeepRetrievalOrder ==
  (pc = "done" /\ response.status = 200) =>
    /\ TiesInRetrievalOrder(scored)
    /\ TiesInRetrievalOrder(response.comparables)

\* every candidate of the cohort scores a match below the quality floor
AllBelowFloor ==
  LET all == score_all(target_payload, candidates_raw, tolerances, today)
  IN  /\ Len(all) > 0
      /\ \A i \in DOMAIN all : 10 * all[i].similarity_score < 3 * ONE

\* C20: when every scored candidate has a match below 0.30, the 200 response
\* still returns candidates, score_candidates having kept the top half of them
\* (at least one), and the metadata of the response carries a warning.
C20_AllBelowFloorWarns ==
  (pc = "done" /\ response.status = 200 /\ AllBelowFloor) =>
    /\ Len(scored) = MaxOf(1, Len(candidates_raw) \div 2)
    /\ Len(response.comparables) >= 1
    /\ response.metadata.warning

-----------------------------------------------------------------------------
(* Properties of the connection pool.                                      *)

\* the workers inside a get_db_cursor block
InBlock == { w \in Workers : cursors[w].pc # "out" }

\* C9: a connection taken by get_db_cursor is checked out of the pool while the
\* block runs and has been put back exactly once when the block is left, on
\* whatever path; the checked-out connections are exactly those of the running
\* blocks, so none is checked out when no block runs.
C9_ConnectionsReturned ==
  /\ pool.free \cap pool.used = {}
  /\ pool.free \cup pool.used = Conns
  /\ pool.used = { cursors[w].conn : w \in InBlock }
  /\ \A w \in InBlock : cursors[w].puts = 0
  /\ \A v, w \in InBlock : cursors[v].conn = cursors[w].conn => v = w
  /\ \A w \in Workers \ InBlock : cursors[w].conn # 0 => cursors[w].puts = 1
  /\ InBlock = {} => pool.used = {}

\* every block has been left, one by cancellation, one with an exception and one
\* normally, and the pool holds all its connections
C9_Witness ==
  /\ InBlock = {}
  /\ pool.used = {}
  /\ \E u, v, w \in Workers :
       /\ cursors[u].conn # 0 /\ cursors[u].pending = "cancelled" /\ cursors[u].puts = 1
       /\ cursors[v].conn # 0 /\ cursors[v].pending = "exception" /\ cursors[v].puts = 1
       /\ cursors[w].conn # 0 /\ cursors[w].pending = "none" /\ cursors[w].puts = 1

-----------------------------------------------------------------------------
(* Properties of the candidate cache.                                      *)

\* C10: no row returned by a call of fetch_candidate_rows is the listing the
\* call was made for, whether the rows came from the store or from the cache.
C10_NeverReturnsTarget ==
  \A i \in DOMAIN fetch_result.rows : fetch_result.rows[i].vehicle_id # fetch_result.target

-----------------------------------------------------------------------------
(* Claims about the candidate cache under concurrent calls.                *)

\* C11: every read and every write of CANDIDATE_CACHE in fetch_candidate_rows
\* happens while the accessing thread holds a mutex.
C11_CacheAccessUnderMutex ==
  \A a \in cache_accesses : a.locked

\* the rows the cache holds for its entries, read through the heap
CachedRows ==
  UNION { { Deref(heap, e.rows[i]) : i \in DOMAIN e.rows } : e \in CANDIDATE_CACHE }

\* the rows the caller holds, read through the heap
ReturnedRows == { Deref(heap, fetch_result.rows[i]) : i \in DOMAIN fetch_result.rows }

\* C12: whatever a caller does to the rows fetch_candidate_rows returned (on a
\* miss or on a hit), to a column or to a nested value, every row the cache
\* holds stays the row the store gave, so a later hit receives unchanged rows.
C12_CacheHoldsDeepCopies ==
  \A r \in CachedRows : r = store[r.vehicle_id]

\* a hit's rows were mutated by the caller, in a column and in a nested value,
\* while the entry is still cached
C12_Witness ==
  /\ fetch_result.hit
  /\ CANDIDATE_CACHE # {}
  /\ \E r \in ReturnedRows : r.price_num = 0 /\ r.images = 0

\* the cache key of a call for the listing id
KeyOf(id, limit) ==
  CacheKey(normalize_text(store[id].make), normalize_text(store[id].model), limit)

\* C13: a call is served from the cache only when the entry of its key is less
\* than CANDIDATE_CACHE_TTL seconds old, and then with that entry's rows; in
\* every other case the store is queried again (every returned row is available
\* now) and the entry gets these rows and the time of the call.  So whatever
\* became unavailable comes out of the cache less than TTL after the write.
C13_EntryServedWithinTTL ==
  [][ \A limit \in CacheLimits :
        ( /\ fetch_result'.target # 0
          /\ fetch_result'.raised = "None"
          /\ fetch_result' # fetch_result \/ CANDIDATE_CACHE' # CANDIDATE_CACHE )
        => LET old == CacheGet(CANDIDATE_CACHE, KeyOf(fetch_result'.target, limit))
               new == CacheGet(CANDIDATE_CACHE', KeyOf(fetch_result'.target, limit))
           IN  IF fetch_result'.hit
                 THEN /\ old # NoRecord
                      /\ clock - old.ts < CANDIDATE_CACHE_TTL
                      /\ fetch_result'.rows = old.rows
                      /\ CANDIDATE_CACHE' = CANDIDATE_CACHE
               ELSE /\ old = NoRecord \/ clock - old.ts >= CANDIDATE_CACHE_TTL
                    /\ new # NoRecord
                    /\ new.ts = clock
                    /\ new.rows = fetch_result'.rows
                    /\ \A i \in DOMAIN new.rows :
                         store[new.rows[i].vehicle_id].is_vehicle_available
    ]_vars

\* a hit returned a listing that is no longer available in the store
C13_Witness ==
  /\ fetch_result.hit
  /\ \E i \in DOMAIN fetch_result.rows :
       ~store[fetch_result.rows[i].vehicle_id].is_vehicle_available

-----------------------------------------------------------------------------
(* Claims about the endpoint's error responses and parameters.             *)

\* the request ended because a store operation failed
StoreFailed == pc = "done" /\ "error" \in DOMAIN response /\ response.error \in StoreErrors

\* C14: a request during which fetch_vehicle or a ladder query failed with a
\* connection, timeout or query error is answered with HTTP 503.
C14_StoreFailureIs503 ==
  StoreFailed => response.status = 503

\* the target row was fetched and has no make or no model
TargetLacksMakeOrModel ==
  /\ target_row # NoRecord
  /\ normalize_text(target_row.make) = None \/ normalize_text(target_row.model) = None

\* C15: a request for an existing, available listing whose make or model is
\* empty or missing is answered with HTTP 400.
C15_MissingMakeModelIs400 ==
  (pc = "done" /\ TargetLacksMakeOrModel) => response.status = 400

\* C16: a request with top = 0 is answered with HTTP 400, and a request with
\* top = 51 is handled as one with top = 50.
C16_TopZeroIs400 ==
  [][ \A id \in RequestIds, q \in EdgeQueries :
        /\ Request(id, <<"int", 0>>, q) => (pc' = "done" /\ response'.status = 400)
        /\ Request(id, <<"int", 51>>, q) =>
             (top' = 50 \/ (pc' = "done" /\ response'.status = 404))
    ]_vars

\* C17: when find_candidate_rows returned a non-empty cohort and top is 1, the
\* response is a 200 with exactly one comparable.
C17_TopOneReturnsOne ==
  (pc = "done" /\ candidates_raw # << >> /\ top = 1) =>
    /\ response.status = 200
    /\ Len(response.comparables) = 1

\* C18: the weights of match and deal add up to 0.85 (to the last digit of the
\* fixed-point scale) and each lies between 0.15 and 0.85, whatever the balance.
C18_WeightsWithinBounds ==
  tolerances # NoRecord =>
    /\ Abs(tolerances.rank_alpha + tolerances.rank_beta - 8500) <= 1
    /\ tolerances.rank_alpha >= 1500 /\ tolerances.rank_alpha <= 8500
    /\ tolerances.rank_beta >= 1500 /\ tolerances.rank_beta <= 8500

-----------------------------------------------------------------------------
(* Properties of targets with missing values.                              *)

\* the store's listings an attempt keeps when mileage is left out of account:
\* the listing is given the mileage of a target that has one
KeptBesidesMileage(a) ==
  { i \in DOMAIN store :
      /\ WhereClause([store[i] EXCEPT !.mileage_num = 45000],
                     [target_locks EXCEPT !.mileage = 45000], a)
      /\ KeepRow(store[i], target_locks, target_year, a) }

\* C21: when the target has no mileage value, no step of find_candidate_rows
\* restricts the mileage of the rows it keeps while its other locks apply as
\* they do otherwise, and the mileage component of the numeric similarity is
\* 0.5 for every scored candidate.
C21_NoMileageNoPredicate ==
  (pc \in {"ladder", "respond", "done"} /\ target_row # NoRecord
     /\ target_row.mileage_num = NoneNum) =>
    /\ \A k \in DOMAIN attempt_logs :
         attempt_logs[k].kept_ids = KeptBesidesMileage(relaxation_attempts[k])
    /\ \A i \in DOMAIN scored : scored[i].mileage_component = ONE \div 2

\* a target without mileage was answered with a listing of 200 000 km and one
\* without mileage, while a listing outside the power range stayed out of the
\* strict step
C21_Witness ==
  /\ pc = "done" /\ response.status = 200
  /\ target_row # NoRecord /\ target_row.mileage_num = NoneNum
  /\ \E i, j \in DOMAIN scored :
       scored[i].mileage_km = 200000 /\ scored[j].mileage_km = NoneNum
  /\ \E id \in DOMAIN store :
       id \notin attempt_logs[1].kept_ids /\ id \in attempt_logs[Len(attempt_logs)].kept_ids

-----------------------------------------------------------------------------
(* Properties of the deal score.                                           *)

\* C22: the two sub-components compute_deal_score reports for a candidate, the
\* comparable score after its mileage adjustment and the hedonic score, each
\* lie in [0,1], whatever the prices, the median, the percentile and the
\* mileages.
C22_DealComponentsInUnitInterval ==
  \A i \in DOMAIN scored :
    /\ 0 <= scored[i].deal.comparable /\ scored[i].deal.comparable <= ONE
    /\ 0 <= scored[i].deal.hedonic /\ scored[i].deal.hedonic <= ONE

\* the candidates of the cohort that carry a price
PricedCandidates == { k \in DOMAIN candidates_raw : candidates_raw[k].price_num # NoneNum }

\* C23: for a cohort with exactly one priced candidate, score_candidates gives
\* that candidate the price percentile 0.0 and a cohort median equal to its
\* price, and its deal score equals its hedonic component.
C23_SinglePricedCandidate ==
  Cardinality(PricedCandidates) = 1 =>
    \A i \in DOMAIN scored :
      scored[i].price_eur # NoneNum =>
        /\ scored[i].deal.price_percentile = 0
        /\ scored[i].deal.median_price = scored[i].price_eur
        /\ scored[i].deal_score = scored[i].deal.hedonic

-----------------------------------------------------------------------------
(* Properties of HybridRankingEngine.rank_candidates.                      *)

\* the two candidates of the cohort agree in everything but the field
SameBut(field) ==
  /\ Len(rank_cohort) = 2
  /\ rank_cohort[1][field] # rank_cohort[2][field]
  /\ \A f \in DOMAIN rank_cohort[1] \ { field } : rank_cohort[1][f] = rank_cohort[2][f]

\* C24: for a target with a positive price and two candidates identical in
\* every attribute except their positive prices, rank_candidates puts the
\* cheaper candidate first and gives it a strictly greater final score.
C24_CheaperRankedFirst ==
  ( /\ ranked.returned
    /\ rank_target.price > 0
    /\ SameBut("price")
    /\ rank_cohort[1].price > 0 /\ rank_cohort[2].price > 0 ) =>
      /\ ranked.entries[1].vehicle.price < ranked.entries[2].vehicle.price
      /\ ranked.entries[1].final_score > ranked.entries[2].final_score

\* entries is a rearrangement of the candidates, one entry for each
OneEntryPerCandidate(entries, candidates) ==
  /\ Len(entries) = Len(candidates)
  /\ \E f \in [DOMAIN entries -> DOMAIN candidates] :
       /\ \A i, j \in DOMAIN entries : f[i] = f[j] => i = j
       /\ \A i \in DOMAIN entries : entries[i].vehicle = candidates[f[i]]

\* C25: rank_candidates returns exactly one entry per candidate, ordered by
\* non-increasing final score, every final score within [0,1], also for
\* candidates without mileage, year, power, fuel, transmission, body type,
\* colour or drivetrain.
C25_RankingWellFormed ==
  ranked.returned =>
    /\ OneEntryPerCandidate(ranked.entries, rank_cohort)
    /\ SortedByFinal(ranked.entries)
    /\ \A i \in DOMAIN ranked.entries :
         0 <= ranked.entries[i].final_score /\ ranked.entries[i].final_score <= ONE

\* a candidate with a price only was ranked, and a candidate given second came
\* out first
C25_Witness ==
  /\ ranked.returned
  /\ Len(rank_cohort) = 2
  /\ rank_cohort[1].mileage_km = NoneNum /\ rank_cohort[1].color = None
  /\ rank_cohort[1].body_type = None
  /\ ranked.entries[1].vehicle = rank_cohort[2]
  /\ ranked.entries[1].final_score > ranked.entries[2].final_score

\* the candidate's colour is the target's preferred colour, as the engine
\* compares colours
IsPreferred(candidate) == BinaryMatch(rank_target.preferred_color, candidate.color, 0) # 0

\* C26: when the target carries a preferred_color, of two candidates identical
\* in every attribute except colour, the one of the preferred colour gets a
\* strictly higher preference score and is ranked first, whatever the target's
\* own colour is.
C26_PreferredColorFirst ==
  ( /\ ranked.returned
    /\ rank_target.preferred_color # None
    /\ SameBut("color")
    /\ \E k \in 1..2 : IsPreferred(rank_cohort[k]) /\ ~IsPreferred(rank_cohort[3 - k]) ) =>
      /\ IsPreferred(ranked.entries[1].vehicle)
      /\ ranked.entries[1].preference > ranked.entries[2].preference
      /\ ranked.entries[1].final_score > ranked.entries[2].final_score

\* the target's own colour is that of the other candidate, which was given
\* first, and the candidate of the preferred colour came out first
C26_Witness ==
  /\ ranked.returned
  /\ rank_target.preferred_color # None
  /\ SameBut("color")
  /\ rank_cohort[1].color = rank_target.color
  /\ IsPreferred(rank_cohort[2]) /\ ~IsPreferred(rank_cohort[1])
  /\ ranked.entries[1].vehicle = rank_cohort[2]

-----------------------------------------------------------------------------
(* Properties of normalize_color applied twice.                            *)

\* C27: normalize_color is idempotent: for every input x,
\* normalize_color(normalize_color(x)) equals normalize_color(x), for the
\* canonical names and for literals that fall through the tables too.
C27_NormalizeColorIdempotent ==
  ( color_call # NoRecord /\ Len(color_call.results) >= 2 ) =>
      color_call.results[2] = color_call.results[1]

-----------------------------------------------------------------------------
(* The strict step and a listing equal to the target.                      *)

\* listing a has the target's make, model, body type, fuel, transmission and
\* colour character for character, and its year, mileage, price and power
SameListing(a, t) ==
  /\ a.make = t.make /\ a.model = t.model
  /\ a.body_type = t.body_type /\ a.fuel_type = t.fuel_type
  /\ a.transmission = t.transmission /\ a.color = t.color
  /\ extract_year(a.first_registration_raw) = extract_year(t.first_registration_raw)
  /\ a.mileage_num = t.mileage_num /\ a.price_num = t.price_num
  /\ a.power_kw = t.power_kw

\* C28: an available listing other than the target whose make, model, body
\* type, fuel, transmission and colour strings equal the target's character
\* for character, and whose year, mileage, price and power equal the
\* target's, is kept at the strict step (when candidate_limit cuts nothing),
\* also for targets whose raw values carry accents or surrounding whitespace.
C28_IdenticalListingKept ==
  ( /\ target_row # NoRecord
    /\ Len(attempt_logs) >= 1
    /\ attempt_logs[1].fetched < options.candidate_limit ) =>
      \A i \in Ids :
        ( /\ i # target_row.vehicle_id
          /\ i \in query_available[1]
          /\ SameListing(store[i], target_row) ) => i \in attempt_logs[1].kept_ids

-----------------------------------------------------------------------------
(* Properties of the ranking service's ladder.                             *)

\* the colour, body, transmission and fuel flags of an attempt
LockConfiguration(a) ==
  [color |-> a.color, body |-> a.body, transmission |-> a.transmission, fuel |-> a.fuel]

\* C29: build_attempts returns a ladder in which no two attempts have the same
\* lock configuration (colour, body, transmission and fuel flags), so that no
\* effective predicate set is queried twice.
C29_NoDuplicateAttempts ==
  ( ladder_call # NoRecord /\ ladder_call.pc # "start" ) =>
    /\ \A i, j \in DOMAIN ladder_call.attempts :
         i # j => LockConfiguration(ladder_call.attempts[i])
                    # LockConfiguration(ladder_call.attempts[j])
    /\ \A i, j \in DOMAIN ladder_call.queries :
         i # j => ladder_call.queries[i] # ladder_call.queries[j]

-----------------------------------------------------------------------------
(* Properties of VehicleDatabase._get_connection.                          *)

\* the connections this call took from the pool that are still checked out
\* and are not the one handed to the caller
LeftCheckedOut ==
  (connection_call.obtained \cap connection_call.used)
    \ { connection_call.result, connection_call.conn }

\* C30: _get_connection ends after at most retries attempts, and every
\* connection it took from the pool is either returned to the caller or back
\* in the pool: an attempt whose probe failed leaves no connection checked
\* out, whether a later attempt succeeds or all fail.
C30_NoConnectionLeftCheckedOut ==
  connection_call # NoRecord =>
    /\ connection_call.getconn_calls <= connection_call.retries
    /\ LeftCheckedOut = {}
====
